---------------------------- MODULE Spec2Model ----------------------------
(***************************************************************************)
(* State-machine model of the solarize_energy controller core:             *)
(*   src/src/battery.c     estimator and charge/discharge/fault machine    *)
(*   src/src/loads.c       load shedding engine                            *)
(*   src/src/controller.c  control cycle                                   *)
(*                                                                         *)
(* The C code computes in double; the model computes in fixed point:       *)
(*   SOC            centi-percent   (10.0 %  = 1000)                       *)
(*   weights/alpha  permille        (0.10    = 100)                        *)
(*   pack voltage   millivolt       (48.0 V  = 48000)                      *)
(*   current        milliampere, charge milliampere-hour                   *)
(*   power W, energy Wh, temperature degree C, time s                      *)
(***************************************************************************)
EXTENDS Integers, Sequences, FiniteSets

VARIABLES
    now,    \* time(NULL), seconds
    bat,    \* battery_system_t
    chk,    \* the function-static last_* flags of battery_check_limits
    meas,   \* system_measurements_t
    lm,     \* load_manager_t
    ctrl,   \* system_controller_t: status, commands, statistics, gate
    pv,     \* pv_system_t (state, max_operating_power)
    proc,   \* the running flag of the program and each caller's position
    op      \* the operation that produced the current state, and its result

vars == <<now, bat, chk, meas, lm, ctrl, pv, proc, op>>

-----------------------------------------------------------------------------
(* Bounds of the model *)

\* time(NULL) when the program starts
T0 == 1000
\* calls made (clock steps included) in the battery specifications
MaxBatOps == 3

-----------------------------------------------------------------------------
(* Arithmetic helpers *)

Min(a, b) == IF a < b THEN a ELSE b
Max(a, b) == IF a > b THEN a ELSE b
Abs(a) == IF a < 0 THEN -a ELSE a

-----------------------------------------------------------------------------
(* battery.h / core.h constants *)

MAX_BATTERY_BANKS == 4
DEFAULT_BANK_SERIES_CELLS == 16
DEFAULT_BANK_CAPACITY_WH == 10000
DEFAULT_BANK_MAX_CHARGE_W == 5000
DEFAULT_BANK_MAX_DISCHARGE_W == 5000
\* DEFAULT_BANK_NOMINAL_V, in volts
DEFAULT_BANK_NOMINAL_V == 48

Chemistries == {"LFP", "NMC", "LEAD_ACID"}

\* OCV tables: <<cell millivolt, SOC centi-percent>>
lfp_ocv_table ==
    << <<2800, 0>>, <<3000, 200>>, <<3100, 1000>>, <<3200, 3000>>,
       <<3250, 5000>>, <<3300, 7000>>, <<3350, 8500>>, <<3400, 9500>>,
       <<3450, 10000>> >>

nmc_ocv_table ==
    << <<3000, 0>>, <<3400, 1000>>, <<3600, 3000>>, <<3700, 5000>>,
       <<3850, 7000>>, <<4000, 8500>>, <<4100, 9500>>, <<4200, 10000>> >>

lead_acid_ocv_table ==
    << <<1750, 0>>, <<1950, 2000>>, <<2050, 5000>>, <<2150, 8000>>,
       <<2250, 9500>>, <<2350, 10000>> >>

\* ocv_to_soc: linear interpolation, clamped at the table's end points
ocv_to_soc(cell_v, table) ==
    LET len == Len(table) IN
    IF cell_v <= table[1][1] THEN table[1][2]
    ELSE IF cell_v >= table[len][1] THEN table[len][2]
    ELSE LET i == CHOOSE k \in 2..len :
                    /\ cell_v <= table[k][1]
                    /\ \A j \in 2..(k-1) : cell_v > table[j][1]
             x0 == table[i-1][1]
             y0 == table[i-1][2]
             x1 == table[i][1]
             y1 == table[i][2]
         IN y0 + ((cell_v - x0) * (y1 - y0)) \div (x1 - x0)

-----------------------------------------------------------------------------
(* battery_init *)

battery_init ==
    [ chemistry |-> "LFP",
      cells_in_series |-> DEFAULT_BANK_SERIES_CELLS,
      bank_nominal_voltage |-> DEFAULT_BANK_NOMINAL_V,
      capacity_nominal_wh |-> MAX_BATTERY_BANKS * DEFAULT_BANK_CAPACITY_WH,
      accumulated_ah |-> 0,
      last_update_ts |-> 0,
      soc_coulomb |-> 5000,
      soc_voltage |-> 5000,
      soc_estimated |-> 5000,
      soc_smoothed |-> 5000,
      nominal_voltage |-> 48,
      capacity_remaining_wh |-> 50,
      max_charge_power_w |-> MAX_BATTERY_BANKS * DEFAULT_BANK_MAX_CHARGE_W,
      max_discharge_power_w |-> MAX_BATTERY_BANKS * DEFAULT_BANK_MAX_DISCHARGE_W,
      max_charge_current_a |->
          (MAX_BATTERY_BANKS * DEFAULT_BANK_MAX_CHARGE_W * 1000)
              \div DEFAULT_BANK_NOMINAL_V,
      max_discharge_current_a |->
          (MAX_BATTERY_BANKS * DEFAULT_BANK_MAX_DISCHARGE_W * 1000)
              \div DEFAULT_BANK_NOMINAL_V,
      absorption_duration_s |-> 2 * 3600,
      absorption_start_ts |-> 0,
      float_start_ts |-> 0,
      temperature_c |-> 25,
      cooling_active |-> FALSE,
      heating_active |-> FALSE,
      state |-> "IDLE",
      previous_state |-> "IDLE",
      charge_stage |-> "BULK",
      soc_voltage_weight |-> 400,
      soc_smoothing_alpha |-> 100,
      min_operating_soc |-> 500,
      max_operating_soc |-> 9800,
      bulk_charge_soc_limit |-> 8500,
      absorption_charge_soc_limit |-> 9500,
      coulomb_efficiency |-> 99,
      self_discharge_rate |-> 33,
      overvoltage_fault |-> FALSE,
      undervoltage_fault |-> FALSE,
      overcurrent_fault |-> FALSE,
      overtemperature_fault |-> FALSE,
      fault_timestamp |-> 0,
      fault_clear_attempts |-> 0 ]

\* the function-static flags of battery_check_limits, all false at load
chk_init ==
    [ last_overvoltage |-> FALSE, last_undervoltage |-> FALSE,
      last_overcurrent |-> FALSE, last_overtemperature |-> FALSE ]

\* total_ah = capacity_nominal_wh / banks[0].nominal_voltage, in mAh
total_ah(b) == (b.capacity_nominal_wh * 1000) \div b.bank_nominal_voltage

\* 100 * accumulated_ah / total_ah, in centi-percent
soc_of_ah(b, ah) == (ah * 100) \div (total_ah(b) \div 100)

\* (soc / 100) * total_ah, in mAh
ah_of_soc(b, soc) ==
    (soc * (total_ah(b) \div 100)) \div 100
        + (soc * (total_ah(b) % 100)) \div 10000

-----------------------------------------------------------------------------
(* battery_calculate_soc: coulomb counting, OCV lookup, fusion, smoothing *)

\* the smoothed value stored as computed
clamp_soc_none(x) == x

\* the smoothed value is clamped to [0, 100] before it is stored
clamp_soc(x) == IF x < 0 THEN 0 ELSE IF x > 10000 THEN 10000 ELSE x

\* the first call only seeds the timestamp, soc_smoothed and the accumulator
soc_first_call(b, m, ts) ==
    [ b EXCEPT !.last_update_ts = ts,
               !.soc_smoothed = m.battery_soc,
               !.accumulated_ah = ah_of_soc(b, m.battery_soc) ]

\* a weight that takes no notice of the current
fusion_weight_any_current(b, m) ==
    LET w0 == b.soc_voltage_weight
        w2 == IF b.temperature_c < 10 \/ b.temperature_c > 40
              THEN (w0 * 3) \div 10 ELSE w0
    IN IF w2 < 0 THEN 0 ELSE IF w2 > 1000 THEN 1000 ELSE w2

\* voltage weight after the current and temperature rules and the clamp
fusion_weight(b, m) ==
    LET w0 == b.soc_voltage_weight
        w1 == IF Abs(m.battery_current) > (b.max_charge_current_a * 5) \div 100
              THEN 0 ELSE w0
        w2 == IF b.temperature_c < 10 \/ b.temperature_c > 40
              THEN (w1 * 3) \div 10 ELSE w1
    IN IF w2 < 0 THEN 0 ELSE IF w2 > 1000 THEN 1000 ELSE w2

\* the accumulator after self-discharge, integration and the clamp
coulomb_count(b, m, dt_s) ==
    LET ah_loss == IF b.self_discharge_rate > 0
                   THEN ((b.capacity_nominal_wh \div b.bank_nominal_voltage)
                            * b.self_discharge_rate * dt_s) \div 864000
                   ELSE 0
        d0 == ((m.battery_current \div 100) * dt_s) \div 36
        delta_ah == IF d0 > 0 THEN (d0 * b.coulomb_efficiency) \div 100 ELSE d0
        acc == b.accumulated_ah - ah_loss + delta_ah
    IN IF acc < 0 THEN 0 ELSE IF acc > total_ah(b) THEN total_ah(b) ELSE acc

voltage_soc(b, m) ==
    LET cell_v == IF b.cells_in_series > 0
                  THEN m.battery_voltage \div b.cells_in_series
                  ELSE m.battery_voltage \div 16
    IN CASE b.chemistry = "LFP" -> ocv_to_soc(cell_v, lfp_ocv_table)
         [] b.chemistry = "NMC" -> ocv_to_soc(cell_v, nmc_ocv_table)
         [] b.chemistry = "LEAD_ACID" -> ocv_to_soc(cell_v, lead_acid_ocv_table)
         [] OTHER -> 0

\* the smoothing factor after the adaptive rule, permille
smoothing_alpha(b, soc_est) ==
    LET change_mag == Abs(soc_est - b.soc_smoothed) IN
    IF change_mag > 100 THEN Min(1000, b.soc_smoothing_alpha * 3)
    ELSE IF change_mag < 10 THEN b.soc_smoothing_alpha \div 2
    ELSE b.soc_smoothing_alpha

\* a correction that fires on the disagreement alone
reanchor_any_weight(wv, soc_c, soc_v) == Abs(soc_c - soc_v) > 1800

\* the large-discrepancy correction applies: the weight is above 0.8 and the
\* two estimates are more than 18 points apart
reanchor(wv, soc_c, soc_v) == wv > 800 /\ Abs(soc_c - soc_v) > 1800

soc_later_call(b, m, ts) ==
    LET d0 == ts - b.last_update_ts
        dt_s == IF d0 < 1 THEN 1 ELSE d0
        acc == coulomb_count(b, m, dt_s)
        soc_c == soc_of_ah(b, acc)
        soc_v == voltage_soc(b, m)
        wv == fusion_weight(b, m)
        soc_est == (soc_c * (1000 - wv) + soc_v * wv) \div 1000
        alpha == smoothing_alpha(b, soc_est)
        smoothed == clamp_soc((alpha * soc_est + (1000 - alpha) * b.soc_smoothed)
                                  \div 1000)
    IN [ b EXCEPT !.accumulated_ah = IF reanchor(wv, soc_c, soc_v)
                                     THEN ah_of_soc(b, soc_v) ELSE acc,
                  !.last_update_ts = ts,
                  !.soc_coulomb = soc_c,
                  !.soc_voltage = soc_v,
                  !.soc_estimated = soc_est,
                  !.soc_smoothed = smoothed,
                  !.capacity_remaining_wh =
                      (smoothed * b.capacity_nominal_wh) \div 10000 ]

\* returns the battery and the measurements as the call leaves them
battery_calculate_soc(b, m, t) ==
    LET ts == IF m.timestamp # 0 THEN m.timestamp ELSE t IN
    IF b.last_update_ts = 0
    THEN [ bat |-> soc_first_call(b, m, ts), meas |-> m ]
    ELSE LET nb == soc_later_call(b, m, ts) IN
         [ bat |-> nb, meas |-> [ m EXCEPT !.battery_soc = nb.soc_smoothed ] ]

-----------------------------------------------------------------------------
(* battery_calculate_max_charge / battery_calculate_max_discharge, in W *)

battery_calculate_max_charge(b) ==
    LET p0 == b.max_charge_power_w
        p1 == IF b.soc_smoothed < 2000 THEN p0
              ELSE IF b.soc_smoothed > 8000
              THEN (p0 * Max(50, (10000 - b.soc_smoothed) \div 2)) \div 1000
              ELSE p0
        p2 == IF b.temperature_c > 45
              THEN (p1 * Max(100 - (b.temperature_c - 45) * 5, 30)) \div 100
              ELSE IF b.temperature_c < 0
              THEN (IF b.soc_smoothed < 1000 THEN p1 \div 10 ELSE 0)
              ELSE IF b.temperature_c < 10
              THEN (p1 * b.temperature_c) \div 10
              ELSE p1
    IN IF p2 < 100 /\ b.soc_smoothed < 2000 THEN 100 ELSE p2

battery_calculate_max_discharge(b) ==
    LET p0 == b.max_discharge_power_w
        p1 == IF b.soc_smoothed < 3000
              THEN (p0 * Max(0, b.soc_smoothed - b.min_operating_soc))
                       \div (3000 - b.min_operating_soc)
              ELSE p0
        p2 == IF b.temperature_c > 55 THEN p1 \div 2 ELSE p1
    IN IF b.temperature_c < -10 THEN p2 \div 5 ELSE p2

-----------------------------------------------------------------------------
(* battery_manage_charging *)

\* emergency_charge || normal_charge
do_charge(b, excess) ==
    \/ (b.soc_smoothed < 1000 /\ excess > 10)
    \/ (excess > 100 /\ b.soc_smoothed < b.max_operating_soc)

\* the charge stage chosen by the stage logic, with the timers it sets
charge_stage_logic(b, t) ==
    IF b.soc_smoothed < b.bulk_charge_soc_limit
    THEN [ b EXCEPT !.charge_stage = "BULK" ]
    ELSE IF b.soc_smoothed < b.absorption_charge_soc_limit
    THEN LET start == IF b.absorption_start_ts = 0 THEN t
                      ELSE b.absorption_start_ts
             elapsed == t - start
         IN IF elapsed >= b.absorption_duration_s
            THEN [ b EXCEPT !.absorption_start_ts = start,
                            !.charge_stage = "FLOAT",
                            !.float_start_ts = t ]
            ELSE [ b EXCEPT !.absorption_start_ts = start,
                            !.charge_stage = "ABSORPTION" ]
    ELSE IF b.soc_smoothed < b.bulk_charge_soc_limit - 500
    THEN [ b EXCEPT !.charge_stage = "BULK", !.float_start_ts = 0 ]
    ELSE [ b EXCEPT !.charge_stage = "FLOAT",
                    !.float_start_ts = IF b.float_start_ts = 0 THEN t
                                       ELSE b.float_start_ts ]

\* charge_power after the emergency floor and the stage rules, before derating
stage_charge_power(b, excess, t) ==
    LET max_charge == battery_calculate_max_charge(b)
        p0 == Min(excess, max_charge)
        p1 == IF b.soc_smoothed < 1000 /\ p0 < 100 THEN Min(100, excess) ELSE p0
    IN IF b.soc_smoothed < b.bulk_charge_soc_limit
       THEN (IF b.soc_smoothed < 2000 THEN Min(excess, b.max_charge_power_w)
             ELSE p1)
       ELSE IF b.soc_smoothed < b.absorption_charge_soc_limit
       THEN LET start == IF b.absorption_start_ts = 0 THEN t
                         ELSE b.absorption_start_ts
                elapsed == t - start
                factor == IF b.absorption_duration_s > 0
                          THEN Max(100, 1000 - (elapsed * 1000)
                                                  \div b.absorption_duration_s)
                          ELSE 1000
            IN (p1 * factor) \div 1000
       ELSE Min(p1, (max_charge * 5) \div 100)

\* temperature derating of the charge power
derate_charge_power(b, p) ==
    IF b.temperature_c > 40
    THEN (p * Max(100 - (b.temperature_c - 40) * 5, 30)) \div 100
    ELSE IF b.temperature_c < 0
    THEN (IF b.soc_smoothed < 1000 THEN p \div 10 ELSE 0)
    ELSE IF b.temperature_c < 10
    THEN (p * (10 + b.temperature_c * 9)) \div 100
    ELSE p

\* the charge power the call settles on (0 when it does not charge)
charge_power_of(b, available_power, load_power, t) ==
    LET excess == available_power - load_power IN
    IF do_charge(b, excess)
    THEN derate_charge_power(b, stage_charge_power(b, excess, t))
    ELSE 0

battery_manage_charging(b, available_power, load_power, t) ==
    LET excess == available_power - load_power IN
    IF ~do_charge(b, excess)
    THEN [ b EXCEPT !.previous_state = IF b.state = "CHARGING" THEN b.state
                                       ELSE b.previous_state,
                    !.state = "IDLE",
                    !.absorption_start_ts = 0,
                    !.float_start_ts = 0,
                    !.charge_stage = "BULK" ]
    ELSE LET b1 == [ b EXCEPT !.previous_state = b.state,
                              !.state = "CHARGING" ]
             b2 == charge_stage_logic(b1, t)
             charge_power == charge_power_of(b, available_power, load_power, t)
         IN IF charge_power > 0
            THEN [ b2 EXCEPT !.accumulated_ah =
                       b.accumulated_ah
                         + ((((charge_power * 1000) \div b.nominal_voltage)
                               \div 3600) * b.coulomb_efficiency) \div 100 ]
            ELSE b2

-----------------------------------------------------------------------------
(* battery_manage_discharging *)

\* a decision that looks at the load only, not at the state of charge
should_discharge_any_soc(b, load_power, grid_available) == load_power > 10

should_discharge(b, load_power, grid_available) ==
    IF ~grid_available
    THEN load_power > 10 /\ b.soc_smoothed > b.min_operating_soc + 500
    ELSE /\ b.soc_smoothed > 7000
         /\ load_power > 100
         /\ b.soc_smoothed > b.min_operating_soc

battery_manage_discharging(b, load_power, grid_available) ==
    IF ~should_discharge(b, load_power, grid_available)
    THEN [ b EXCEPT !.previous_state = IF b.state = "DISCHARGING" THEN b.state
                                       ELSE b.previous_state,
                    !.state = "IDLE" ]
    ELSE [ b EXCEPT !.previous_state = b.state, !.state = "DISCHARGING" ]

-----------------------------------------------------------------------------
(* battery_check_limits: trip and recovery thresholds per fault *)

\* cell-voltage thresholds per chemistry, millivolt
cell_v_max(b) == CASE b.chemistry = "NMC" -> 4200
                   [] b.chemistry = "LEAD_ACID" -> 2450
                   [] OTHER -> 3650
cell_v_max_hyst(b) == CASE b.chemistry = "NMC" -> 4150
                        [] b.chemistry = "LEAD_ACID" -> 2400
                        [] OTHER -> 3600
cell_v_min(b) == CASE b.chemistry = "NMC" -> 3000
                   [] b.chemistry = "LEAD_ACID" -> 1750
                   [] OTHER -> 2500
cell_v_min_hyst(b) == CASE b.chemistry = "NMC" -> 3100
                        [] b.chemistry = "LEAD_ACID" -> 1800
                        [] OTHER -> 2600

\* current thresholds, milliampere
charge_threshold(b) == (b.max_charge_current_a * 12) \div 10
discharge_threshold(b) == (b.max_discharge_current_a * 12) \div 10
charge_hyst(b) == (b.max_charge_current_a * 11) \div 10
discharge_hyst(b) == (b.max_discharge_current_a * 11) \div 10

temp_threshold == 60
temp_hyst == 55

cell_voltage(b, m) ==
    LET s == IF b.cells_in_series <= 0 THEN DEFAULT_BANK_SERIES_CELLS
             ELSE b.cells_in_series
    IN m.battery_voltage \div s

\* a check without the band: the flag follows the trip comparison
hyst_flag_no_band(flag, last, trip, recovered) == trip

\* one flag of the check: trip sets it, recovery clears it if it was set
hyst_flag(flag, last, trip, recovered) ==
    IF trip THEN TRUE ELSE IF recovered /\ last THEN FALSE ELSE flag

overvoltage_trip(b, m) == cell_voltage(b, m) > cell_v_max(b)
overvoltage_recovered(b, m) == cell_voltage(b, m) < cell_v_max_hyst(b)
undervoltage_trip(b, m) == cell_voltage(b, m) < cell_v_min(b)
undervoltage_recovered(b, m) == cell_voltage(b, m) > cell_v_min_hyst(b)
overcurrent_trip(b, m) ==
    \/ m.battery_current > charge_threshold(b)
    \/ m.battery_current < -discharge_threshold(b)
overcurrent_recovered(b, m) ==
    /\ m.battery_current < charge_hyst(b)
    /\ m.battery_current > -discharge_hyst(b)
overtemperature_trip(m) == m.battery_temp > temp_threshold
overtemperature_recovered(m) == m.battery_temp < temp_hyst

\* returns the battery, the static flags and the function's result
battery_check_limits(b, c, m, t) ==
    LET ov == hyst_flag(b.overvoltage_fault, c.last_overvoltage,
                        overvoltage_trip(b, m), overvoltage_recovered(b, m))
        uv == hyst_flag(b.undervoltage_fault, c.last_undervoltage,
                        undervoltage_trip(b, m), undervoltage_recovered(b, m))
        oc == hyst_flag(b.overcurrent_fault, c.last_overcurrent,
                        overcurrent_trip(b, m), overcurrent_recovered(b, m))
        ot == hyst_flag(b.overtemperature_fault, c.last_overtemperature,
                        overtemperature_trip(m), overtemperature_recovered(m))
        fault == \/ overvoltage_trip(b, m) \/ undervoltage_trip(b, m)
                 \/ overcurrent_trip(b, m) \/ overtemperature_trip(m)
        stamped == \/ (overvoltage_trip(b, m) /\ ~c.last_overvoltage)
                   \/ (undervoltage_trip(b, m) /\ ~c.last_undervoltage)
                   \/ (overcurrent_trip(b, m) /\ ~c.last_overcurrent)
                   \/ (overtemperature_trip(m) /\ ~c.last_overtemperature)
        b1 == [ b EXCEPT !.overvoltage_fault = ov,
                         !.undervoltage_fault = uv,
                         !.overcurrent_fault = oc,
                         !.overtemperature_fault = ot,
                         !.fault_timestamp = IF stamped THEN t
                                             ELSE b.fault_timestamp ]
        b2 == IF fault /\ b.state # "FAULT"
              THEN [ b1 EXCEPT !.previous_state = b.state,
                               !.state = "FAULT",
                               !.fault_clear_attempts = 0 ]
              ELSE b1
    IN [ bat |-> b2,
         chk |-> [ last_overvoltage |-> ov, last_undervoltage |-> uv,
                   last_overcurrent |-> oc, last_overtemperature |-> ot ],
         fault |-> fault ]

-----------------------------------------------------------------------------
(* battery_thermal_management, battery_clear_faults *)

\* a manager without the bands: each output follows its switch-on test
battery_thermal_management_no_band(b) ==
    [ b EXCEPT !.cooling_active = b.temperature_c >= 35,
               !.heating_active = b.temperature_c <= 8 ]

battery_thermal_management(b) ==
    [ b EXCEPT !.cooling_active = IF b.temperature_c >= 35 THEN TRUE
                                  ELSE IF b.temperature_c <= 33 THEN FALSE
                                  ELSE b.cooling_active,
               !.heating_active = IF b.temperature_c <= 8 THEN TRUE
                                  ELSE IF b.temperature_c >= 10 THEN FALSE
                                  ELSE b.heating_active ]

still_faulted(b) ==
    \/ b.overvoltage_fault \/ b.undervoltage_fault
    \/ b.overcurrent_fault \/ b.overtemperature_fault

battery_clear_faults(b) ==
    IF b.state # "FAULT" THEN b
    ELSE IF ~still_faulted(b)
    THEN [ b EXCEPT !.state = IF b.previous_state # "FAULT"
                              THEN b.previous_state ELSE "IDLE",
                    !.fault_clear_attempts = b.fault_clear_attempts + 1 ]
    ELSE [ b EXCEPT !.fault_clear_attempts = b.fault_clear_attempts + 1 ]

-----------------------------------------------------------------------------
(* battery_update_measurements *)

\* the end of battery_update_measurements: faults older than 300 s are put
\* to battery_clear_faults
auto_clear_faults(b, t) ==
    IF b.state = "FAULT" /\ t - b.fault_timestamp > 300
    THEN battery_clear_faults(b) ELSE b

\* thermal management and auto-clear on the result r of battery_check_limits
after_check_limits(r, m, t) ==
    [ bat |-> auto_clear_faults(battery_thermal_management(r.bat), t),
      chk |-> r.chk,
      meas |-> m ]

\* the limit check on the result r of battery_calculate_soc
after_calculate_soc(r, c, t) ==
    after_check_limits(battery_check_limits(r.bat, c, r.meas, t), r.meas, t)

\* returns the battery, the static flags and the measurements
battery_update_measurements(b, c, m, t) ==
    LET b0 == IF m.battery_temp # 0
              THEN [ b EXCEPT !.temperature_c = m.battery_temp ] ELSE b
        m0 == [ m EXCEPT !.battery_power = IF b.capacity_remaining_wh # 0
                                           THEN b.capacity_remaining_wh
                                           ELSE m.battery_power,
                         !.battery_voltage = b.nominal_voltage * 1000,
                         !.timestamp = IF m.timestamp # 0 THEN m.timestamp
                                       ELSE t ]
    IN after_calculate_soc(battery_calculate_soc(b0, m0, t), c, t)

-----------------------------------------------------------------------------
(* loads.c: the load manager *)

\* load_priority_t
PRIORITY_CRITICAL == 0
PRIORITY_HIGH == 1
PRIORITY_MEDIUM == 2
PRIORITY_LOW == 3
PRIORITY_NON_ESSENTIAL == 4

\* a load_definition_t as the configuration gives it
load_definition(priority, rated_power, is_sheddable, min_on_time, min_off_time) ==
    [ priority |-> priority, rated_power |-> rated_power,
      is_deferrable |-> FALSE, is_sheddable |-> is_sheddable,
      min_on_time |-> min_on_time, min_off_time |-> min_off_time,
      last_state_change |-> 0, current_state |-> FALSE ]

\* loads_init: every load ON with current_state false, shedding_active true
loads_init(config, t) ==
    [ loads |-> [ i \in 1..Len(config) |->
                    [ config[i] EXCEPT !.last_state_change = t,
                                       !.current_state = FALSE ] ],
      load_states |-> [ i \in 1..Len(config) |-> "ON" ],
      load_count |-> Len(config),
      shedding_active |-> TRUE,
      shed_power_target |-> 0,
      shedding_start_time |-> 0,
      shed_event_count |-> 0,
      restart_event_count |-> 0,
      min_shed_duration |-> 60,
      load_rotation_interval |-> 300 ]

loads_check_timing_constraints(l, i, t) ==
    LET load == l.loads[i]
        time_since_change == t - load.last_state_change
    IN IF load.current_state
       THEN ~(time_since_change < load.min_on_time)
       ELSE ~(time_since_change < load.min_off_time)

\* loads_can_shed_load with the check of the priority left out
loads_can_shed_load_any_priority(l, i, available_power, t) ==
    /\ ~(available_power >= 40)
    /\ l.loads[i].is_sheddable
    /\ loads_check_timing_constraints(l, i, t)

loads_can_shed_load(l, i, available_power, t) ==
    /\ ~(available_power >= 40)
    /\ l.loads[i].priority # PRIORITY_CRITICAL
    /\ l.loads[i].is_sheddable
    /\ loads_check_timing_constraints(l, i, t)

\* load i changes state at time t
set_load(l, i, state, on, t) ==
    [ l EXCEPT !.load_states[i] = state,
               !.loads[i].current_state = on,
               !.loads[i].last_state_change = t ]

\* the shedding loops of loads_manage_shedding, from priority p and load i on,
\* with power_shed already shed
RECURSIVE shed_scan(_, _, _, _, _, _)
shed_scan(l, p, i, power_shed, available_power, t) ==
    IF p < PRIORITY_CRITICAL THEN l
    ELSE IF i > l.load_count
    THEN (IF power_shed >= l.shed_power_target THEN l
          ELSE shed_scan(l, p - 1, 1, power_shed, available_power, t))
    ELSE IF /\ l.loads[i].priority = p
            /\ l.load_states[i] = "ON"
            /\ l.loads[i].is_sheddable
            /\ loads_can_shed_load(l, i, available_power, t)
            /\ loads_check_timing_constraints(l, i, t)
    THEN LET shed == power_shed + l.loads[i].rated_power
             l1 == set_load(l, i, "SHED", FALSE, t)
         IN IF shed >= l.shed_power_target
            THEN l1
            ELSE shed_scan(l1, p, i + 1, shed, available_power, t)
    ELSE shed_scan(l, p, i + 1, power_shed, available_power, t)

\* the restore loops of loads_restore_shed, from priority p and load i on
RECURSIVE restore_scan(_, _, _, _, _, _)
restore_scan(l, p, i, excess_power, available_power, t) ==
    IF p > PRIORITY_NON_ESSENTIAL THEN l
    ELSE IF i > l.load_count
    THEN restore_scan(l, p + 1, 1, excess_power, available_power, t)
    ELSE IF /\ l.loads[i].priority = p
            /\ l.load_states[i] = "SHED"
            /\ loads_can_shed_load(l, i, available_power, t)
            /\ l.loads[i].rated_power <= excess_power
    THEN restore_scan([ set_load(l, i, "ON", TRUE, t) EXCEPT
                            !.restart_event_count = l.restart_event_count + 1 ],
                      p, i + 1, excess_power - l.loads[i].rated_power,
                      available_power, t)
    ELSE restore_scan(l, p, i + 1, excess_power, available_power, t)

any_shed(l) == \E i \in 1..l.load_count : l.load_states[i] = "SHED"

loads_restore_shed(l, available_power, t) ==
    LET l1 == restore_scan(l, PRIORITY_CRITICAL, 1, available_power,
                           available_power, t)
    IN IF ~any_shed(l1)
       THEN [ l1 EXCEPT !.shedding_active = FALSE, !.shed_power_target = 0 ]
       ELSE l1

\* the loads loads_rotate_shedding may restore, and may shed instead of i
rotate_out(l, t) ==
    { i \in 1..l.load_count :
        /\ l.load_states[i] = "SHED"
        /\ t - l.loads[i].last_state_change >= l.min_shed_duration }
rotate_in(l, i, t) ==
    { j \in 1..l.load_count :
        /\ j # i
        /\ l.load_states[j] = "ON"
        /\ l.loads[j].is_sheddable
        /\ loads_can_shed_load(l, j, 0, t)
        /\ loads_check_timing_constraints(l, j, t) }

first_of(S) == CHOOSE i \in S : \A j \in S : i <= j

loads_rotate_shedding(l, t) ==
    LET l2 == IF rotate_out(l, t) = {} THEN l
              ELSE LET i == first_of(rotate_out(l, t))
                       l1 == set_load(l, i, "ON", TRUE, t)
                   IN IF rotate_in(l1, i, t) = {} THEN l1
                      ELSE set_load(l1, first_of(rotate_in(l1, i, t)),
                                    "SHED", FALSE, t)
    IN [ l2 EXCEPT !.shedding_start_time = t ]

\* a first line that lets every call through
shedding_runs_always(battery_soc, grid_available) == TRUE

\* whether loads_manage_shedding goes past its first line
shedding_runs(battery_soc, grid_available) ==
    ~(grid_available \/ battery_soc < 5000)

\* whether the rotation at the end of loads_manage_shedding runs on l
rotation_due(l, t) ==
    l.shedding_active /\ t - l.shedding_start_time > l.load_rotation_interval

\* returns the load manager and the function's result
loads_manage_shedding(l, available_power, total_load, battery_soc, grid_available, t) ==
    IF ~shedding_runs(battery_soc, grid_available)
    THEN [ lm |-> l, changed |-> FALSE ]
    ELSE LET power_deficit == total_load - available_power
             l1 == IF power_deficit > 100
                   THEN LET l0 == IF ~l.shedding_active
                                  THEN [ l EXCEPT
                                           !.shedding_active = TRUE,
                                           !.shedding_start_time = t,
                                           !.shed_power_target =
                                               (power_deficit * 12) \div 10,
                                           !.shed_event_count =
                                               l.shed_event_count + 1 ]
                                  ELSE l
                        IN shed_scan(l0, PRIORITY_NON_ESSENTIAL, 1, 0,
                                     available_power, t)
                   ELSE IF l.shedding_active /\ power_deficit < -200
                   THEN loads_restore_shed(l, available_power, t)
                   ELSE l
             l2 == IF rotation_due(l1, t) THEN loads_rotate_shedding(l1, t)
                   ELSE l1
         IN [ lm |-> l2,
              changed |-> \/ (power_deficit > 100
                                /\ l1.load_states # l.load_states)
                          \/ rotation_due(l1, t) ]

-----------------------------------------------------------------------------
(* loads_update_measurements *)

RECURSIVE sum_to(_, _)
\* f[1] + ... + f[n]
sum_to(f, n) == IF n = 0 THEN 0 ELSE f[n] + sum_to(f, n - 1)

\* rated power of the loads that are ON and whose index is in S
on_power(l, S) ==
    sum_to([ i \in 1..l.load_count |->
               IF l.load_states[i] = "ON" /\ i \in S
               THEN l.loads[i].rated_power ELSE 0 ], l.load_count)

\* loads_update_energy_consumed restarts the timer of every load whose
\* current_state is true
loads_update_energy_consumed(l, t) ==
    [ l EXCEPT !.loads = [ i \in 1..l.load_count |->
          IF l.loads[i].current_state
          THEN [ l.loads[i] EXCEPT !.last_state_change = t ]
          ELSE l.loads[i] ] ]

\* returns the load manager and the measurements
loads_update_measurements(l, m, t) ==
    LET all == 1..l.load_count
        critical == { i \in all : l.loads[i].priority = PRIORITY_CRITICAL }
        deferrable == { i \in all : l.loads[i].is_deferrable }
    IN [ lm |-> loads_update_energy_consumed(l, t),
         meas |-> [ m EXCEPT !.load_power_total = on_power(l, all),
                             !.load_power_critical = on_power(l, critical),
                             !.load_power_deferrable = on_power(l, deferrable) ] ]

-----------------------------------------------------------------------------
(* pv.c *)

MAX_PV_STRINGS == 4

\* pv_init: four enabled strings of 5000 W, nothing curtailed
pv_init ==
    [ state |-> "MPPT",
      string_max_power |-> 5000,
      total_capacity |-> MAX_PV_STRINGS * 5000,
      available_power |-> 0,
      max_operating_power |-> MAX_PV_STRINGS * 5000 ]

\* every string is enabled and without fault; soiling 0.98, wiring 0.97
pv_calculate_available_power(p) ==
    Min(MAX_PV_STRINGS * ((p.string_max_power * 98 * 97) \div 10000),
        p.total_capacity)

\* returns the PV system and the measurements
pv_update_measurements(p, m) ==
    LET available_power == pv_calculate_available_power(p) IN
    [ pv |-> [ p EXCEPT !.available_power = available_power ],
      meas |-> [ m EXCEPT !.pv_power_total = available_power ] ]

\* curtail_percent in centi-percent
pv_apply_curtailment(p, curtail_percent) ==
    LET c == IF curtail_percent < 0 THEN 0
             ELSE IF curtail_percent > 10000 THEN 10000 ELSE curtail_percent
    IN [ p EXCEPT !.max_operating_power =
                      (p.total_capacity * (10000 - c)) \div 10000,
                  !.state = IF c > 0 THEN "CURTAILED"
                            ELSE IF p.state = "CURTAILED" THEN "MPPT"
                            ELSE p.state ]

-----------------------------------------------------------------------------
(* controller.c *)

MAX_CONTROLLABLE_LOADS == 12
MAX_IRRIGATION_ZONES == 8
MAX_EV_CHARGERS == 2

\* control_commands_t after memset(&ctrl->commands, 0, ...)
commands_zero ==
    [ battery_setpoint |-> 0,
      pv_curtail |-> FALSE,
      pv_curtail_percent |-> 0,
      load_shed |-> [ i \in 1..MAX_CONTROLLABLE_LOADS |-> FALSE ],
      irrigation_enable |-> [ i \in 1..MAX_IRRIGATION_ZONES |-> FALSE ],
      ev_charge_rate |-> [ i \in 1..MAX_EV_CHARGERS |-> 0 ],
      grid_connect |-> FALSE,
      island |-> FALSE ]

\* controller_init; energy totals are kept in watt-seconds
controller_init(control_interval, t) ==
    [ mode |-> "AUTO",
      control_interval |-> control_interval,
      last_control_cycle |-> t,
      cycle_count |-> 0,
      status |-> [ mode |-> "NORMAL",
                   grid_available |-> TRUE,
                   grid_stable |-> TRUE,
                   battery_soc_category |-> "SOC_MEDIUM",
                   alarms |-> {},
                   warnings |-> {},
                   last_mode_change |-> t,
                   uptime |-> 0 ],
      commands |-> commands_zero,
      statistics |-> [ stats_start_time |-> t,
                       pv_energy_total |-> 0,
                       grid_import_total |-> 0,
                       grid_export_total |-> 0,
                       battery_charge_total |-> 0,
                       battery_discharge_total |-> 0,
                       load_energy_total |-> 0,
                       irrigation_energy_total |-> 0,
                       ev_charge_energy_total |-> 0,
                       grid_outage_count |-> 0,
                       island_count |-> 0,
                       load_shed_count |-> 0 ],
      grid_import_allowed |-> TRUE,
      grid_export_allowed |-> FALSE,
      grid_import_limit |-> 10000,
      grid_export_limit |-> 5000,
      max_total_power |-> 20000,
      max_battery_temp |-> 50,
      max_load_power |-> 15000,
      fault_mask |-> {},
      last_fault_time |-> 0 ]

\* total_consumption / total_power of the measurements
total_consumption(m) ==
    m.load_power_total + m.irrigation_power + m.ev_charging_power

\* the grid part of controller_update_measurements; frequency in deci-hertz
grid_measurements(c, m) ==
    IF c.status.grid_available
    THEN LET gp == total_consumption(m) - m.pv_power_total - m.battery_power
             limited ==
                 IF gp > 0
                 THEN (IF ~c.grid_import_allowed \/ gp > c.grid_import_limit
                       THEN c.grid_import_limit ELSE gp)
                 ELSE (IF ~c.grid_export_allowed \/ Abs(gp) > c.grid_export_limit
                       THEN -c.grid_export_limit ELSE gp)
         IN [ m EXCEPT !.grid_voltage = IF m.grid_voltage > 0
                                        THEN m.grid_voltage ELSE 240,
                       !.grid_frequency = IF m.grid_frequency > 0
                                          THEN m.grid_frequency ELSE 600,
                       !.grid_power = limited ]
    ELSE [ m EXCEPT !.grid_power = 0, !.grid_voltage = 0, !.grid_frequency = 0 ]

\* the steps of controller_update_measurements on the state
\* s = [bat, chk, meas, lm, ctrl, pv]
put_pv(s, r) == [ s EXCEPT !.pv = r.pv, !.meas = r.meas ]
put_battery(s, r) == [ s EXCEPT !.bat = r.bat, !.chk = r.chk, !.meas = r.meas ]
put_loads(s, r) == [ s EXCEPT !.lm = r.lm, !.meas = r.meas ]
update_pv(s) == put_pv(s, pv_update_measurements(s.pv, s.meas))
update_battery(s, t) ==
    put_battery(s, battery_update_measurements(s.bat, s.chk, s.meas, t))
update_loads(s, t) == put_loads(s, loads_update_measurements(s.lm, s.meas, t))
\* irrigation and ev are the powers the two subsystems report
update_subsystems(s, irrigation, ev) ==
    [ s EXCEPT !.meas.irrigation_power = irrigation,
               !.meas.ev_charging_power = ev ]
update_grid(s, t) ==
    [ s EXCEPT !.meas = [ grid_measurements(s.ctrl, s.meas) EXCEPT
                            !.timestamp = t ] ]

controller_update_measurements(s, irrigation, ev, t) ==
    update_grid(
        update_subsystems(update_loads(update_battery(update_pv(s), t), t),
                          irrigation, ev),
        t)

\* controller_check_safety_limits: FALSE when the system must stop
controller_check_safety_limits(c, m) ==
    ~ \/ m.battery_temp > c.max_battery_temp
      \/ total_consumption(m) > c.max_total_power
      \/ m.load_power_total > c.max_load_power
      \/ m.battery_voltage < 20000
      \/ m.battery_voltage > 80000

\* an emergency shutdown that leaves the grid commands as they were
controller_emergency_shutdown_keeps_grid(s) ==
    [ s EXCEPT !.ctrl.commands.load_shed =
                   [ i \in 1..MAX_CONTROLLABLE_LOADS |-> TRUE ],
               !.pv = pv_apply_curtailment(s.pv, 10000),
               !.ctrl.mode = "SAFE",
               !.ctrl.status.mode = "EMERGENCY" ]

\* controller_emergency_shutdown: writes load_shed, grid_connect and island
\* of the commands, and no other command field
controller_emergency_shutdown(s) ==
    [ s EXCEPT !.ctrl.commands.load_shed =
                   [ i \in 1..MAX_CONTROLLABLE_LOADS |-> TRUE ],
               !.pv = pv_apply_curtailment(s.pv, 10000),
               !.ctrl.commands.grid_connect = FALSE,
               !.ctrl.commands.island = TRUE,
               !.ctrl.mode = "SAFE",
               !.ctrl.status.mode = "EMERGENCY" ]

\* controller_handle_faults; the PV check finds nothing on the readings
\* pv_update_measurements writes; ag_fault and ev_fault are the results of
\* agriculture_check_faults and ev_check_faults
raise_faults(s, r, new_faults, t) ==
    IF new_faults # {}
    THEN [ s EXCEPT !.bat = r.bat, !.chk = r.chk,
                    !.ctrl.fault_mask = s.ctrl.fault_mask \cup new_faults,
                    !.ctrl.status.alarms = s.ctrl.status.alarms \cup new_faults,
                    !.ctrl.last_fault_time = t ]
    ELSE [ s EXCEPT !.bat = r.bat, !.chk = r.chk ]

\* the alarms controller_handle_faults raises, r the battery_check_limits
\* result
new_faults_of(s, r, ag_fault, ev_fault) ==
    (IF r.fault /\ r.bat.overtemperature_fault
     THEN {"ALARM_BATTERY_OVER_TEMP"} ELSE {})
    \cup (IF ag_fault THEN {"ALARM_IRRIGATION_FAULT"} ELSE {})
    \cup (IF ev_fault THEN {"ALARM_EV_CHARGER_FAULT"} ELSE {})
    \cup (IF total_consumption(s.meas) > s.ctrl.max_total_power
          THEN {"ALARM_OVERLOAD"} ELSE {})

faults_after_check(s, r, ag_fault, ev_fault, t) ==
    raise_faults(s, r, new_faults_of(s, r, ag_fault, ev_fault), t)

controller_handle_faults(s, ag_fault, ev_fault, t) ==
    faults_after_check(s, battery_check_limits(s.bat, s.chk, s.meas, t),
                       ag_fault, ev_fault, t)

soc_category(soc) ==
    IF soc < 2000 THEN "SOC_CRITICAL"
    ELSE IF soc < 4000 THEN "SOC_LOW"
    ELSE IF soc < 7000 THEN "SOC_MEDIUM"
    ELSE IF soc < 9000 THEN "SOC_HIGH"
    ELSE "SOC_FULL"

\* controller_determine_mode, on the controller record
controller_determine_mode(c, m, t) ==
    LET grid_was_available == c.status.grid_available
        grid_available == /\ m.grid_voltage > 200
                          /\ m.grid_frequency > 595
                          /\ m.grid_frequency < 605
        lost == ~grid_available /\ grid_was_available
        restored == grid_available /\ ~grid_was_available
        c1 == IF lost
              THEN [ c EXCEPT
                       !.status.last_mode_change = t,
                       !.statistics.grid_outage_count =
                           c.statistics.grid_outage_count + 1,
                       !.statistics.island_count =
                           c.statistics.island_count + 1,
                       !.status.alarms =
                           c.status.alarms \cup {"ALARM_GRID_FAILURE"} ]
              ELSE IF restored
              THEN [ c EXCEPT
                       !.status.last_mode_change = t,
                       !.status.alarms =
                           c.status.alarms \ {"ALARM_GRID_FAILURE"} ]
              ELSE c
        mode1 == IF lost THEN "ISLAND"
                 ELSE IF restored THEN "NORMAL" ELSE c.status.mode
        critical == m.battery_soc < 2000 /\ ~grid_available
    IN [ c1 EXCEPT
           !.status.grid_available = grid_available,
           !.status.alarms = IF critical
                             THEN c1.status.alarms \cup {"ALARM_BATTERY_LOW_SOC"}
                             ELSE c1.status.alarms,
           !.status.battery_soc_category = soc_category(m.battery_soc),
           !.status.mode = IF critical THEN "CRITICAL" ELSE mode1 ]

\* commands that always ask for the island
commands_of_always_island(s, l, curtail, curtail_percent) ==
    [ commands_zero EXCEPT
        !.pv_curtail = curtail,
        !.pv_curtail_percent = IF curtail THEN curtail_percent ELSE 0,
        !.load_shed = [ i \in 1..MAX_CONTROLLABLE_LOADS |->
                          i <= l.load_count /\ l.load_states[i] = "SHED" ],
        !.grid_connect = s.ctrl.status.grid_available
                         /\ s.ctrl.status.mode \in {"NORMAL", "MAINTENANCE"},
        !.island = TRUE,
        !.battery_setpoint = s.meas.battery_power ]

\* the commands controller_optimize_energy_flow builds on the cleared record
\* once the load manager l has run
commands_of(s, l, curtail, curtail_percent) ==
    [ commands_zero EXCEPT
        !.pv_curtail = curtail,
        !.pv_curtail_percent = IF curtail THEN curtail_percent ELSE 0,
        !.load_shed = [ i \in 1..MAX_CONTROLLABLE_LOADS |->
                          i <= l.load_count /\ l.load_states[i] = "SHED" ],
        !.grid_connect = s.ctrl.status.grid_available
                         /\ s.ctrl.status.mode \in {"NORMAL", "MAINTENANCE"},
        !.island = ~s.ctrl.status.grid_available
                   \/ s.ctrl.status.mode \in {"ISLAND", "CRITICAL"},
        !.battery_setpoint = s.meas.battery_power ]

\* PV curtailment applies above 90 % SOC with more than 100 W excess
curtail_needed(m) ==
    /\ m.pv_power_total > total_consumption(m)
    /\ m.battery_soc > 9000
    /\ m.pv_power_total - total_consumption(m) > 100

curtail_percent_of(m) == Min((m.battery_soc - 9000) * 5, 5000)

\* the battery control of controller_optimize_energy_flow
optimize_battery(s, t) ==
    IF s.meas.pv_power_total > total_consumption(s.meas)
    THEN battery_manage_charging(
             s.bat, s.meas.pv_power_total - total_consumption(s.meas),
             total_consumption(s.meas), t)
    ELSE battery_manage_discharging(
             s.bat, total_consumption(s.meas) - s.meas.pv_power_total,
             s.ctrl.status.grid_available)

optimize_put(s, b, shed) ==
    [ s EXCEPT !.bat = b,
               !.lm = shed.lm,
               !.pv = IF curtail_needed(s.meas)
                      THEN pv_apply_curtailment(s.pv, curtail_percent_of(s.meas))
                      ELSE s.pv,
               !.ctrl.commands = commands_of(s, shed.lm, curtail_needed(s.meas),
                                             curtail_percent_of(s.meas)) ]

controller_optimize_energy_flow(s, t) ==
    optimize_put(s, optimize_battery(s, t),
                 loads_manage_shedding(s.lm, s.meas.pv_power_total,
                                       total_consumption(s.meas),
                                       s.meas.battery_soc,
                                       s.ctrl.status.grid_available, t))

controller_manage_grid_connection(c) ==
    IF c.commands.grid_connect /\ ~c.commands.island
    THEN [ c EXCEPT !.status.grid_available = TRUE, !.status.grid_stable = TRUE ]
    ELSE IF c.commands.island
    THEN [ c EXCEPT !.status.grid_available = FALSE ]
    ELSE c

\* controller_update_statistics: dt is control_interval, totals in W s
controller_update_statistics(c, m, l) ==
    LET dt == c.control_interval
        st == c.statistics
    IN [ c EXCEPT !.statistics =
          [ st EXCEPT
              !.pv_energy_total = st.pv_energy_total + m.pv_power_total * dt,
              !.grid_import_total = st.grid_import_total
                  + (IF m.grid_power > 0 THEN m.grid_power * dt ELSE 0),
              !.grid_export_total = st.grid_export_total
                  + (IF m.grid_power > 0 THEN 0 ELSE Abs(m.grid_power) * dt),
              !.battery_charge_total = st.battery_charge_total
                  + (IF m.battery_power < 0 THEN Abs(m.battery_power) * dt
                     ELSE 0),
              !.battery_discharge_total = st.battery_discharge_total
                  + (IF m.battery_power < 0 THEN 0 ELSE m.battery_power * dt),
              !.load_energy_total = st.load_energy_total
                  + m.load_power_total * dt,
              !.irrigation_energy_total = st.irrigation_energy_total
                  + m.irrigation_power * dt,
              !.ev_charge_energy_total = st.ev_charge_energy_total
                  + m.ev_charging_power * dt,
              !.load_shed_count = st.load_shed_count
                  + (IF l.shedding_active THEN 1 ELSE 0) ] ]

\* a gate that lets every call through
cycle_due_always(c, t) == TRUE

\* the gate of controller_run_cycle: FALSE while the interval has not elapsed
cycle_due(c, t) == ~(t - c.last_control_cycle < c.control_interval)

\* the timing fields controller_run_cycle writes once the gate is passed
stamp_cycle(s, t) ==
    [ s EXCEPT !.ctrl.last_control_cycle = t,
               !.ctrl.cycle_count = s.ctrl.cycle_count + 1,
               !.ctrl.status.uptime = t - s.ctrl.statistics.stats_start_time ]

determine_mode(s, t) ==
    [ s EXCEPT !.ctrl = controller_determine_mode(s.ctrl, s.meas, t) ]
manage_grid_connection(s) ==
    [ s EXCEPT !.ctrl = controller_manage_grid_connection(s.ctrl) ]
update_statistics(s) ==
    [ s EXCEPT !.ctrl = controller_update_statistics(s.ctrl, s.meas, s.lm) ]

\* a cycle that does not return after the emergency shutdown but runs the
\* remaining steps on its result
after_measurements_no_return(s, ag_fault, ev_fault, t) ==
    IF ~controller_check_safety_limits(s.ctrl, s.meas)
    THEN [ state |->
             update_statistics(
               manage_grid_connection(
                 controller_optimize_energy_flow(
                   determine_mode(
                     controller_handle_faults(
                       controller_emergency_shutdown(s), ag_fault, ev_fault, t),
                     t),
                   t))),
           ret |-> -1, path |-> "emergency" ]
    ELSE [ state |->
             update_statistics(
               manage_grid_connection(
                 controller_optimize_energy_flow(
                   determine_mode(
                     controller_handle_faults(s, ag_fault, ev_fault, t), t),
                   t))),
           ret |-> 0, path |-> "normal" ]

\* controller_run_cycle after the measurements are in: the safety check and
\* either the emergency shutdown or the rest of the cycle
after_measurements(s, ag_fault, ev_fault, t) ==
    IF ~controller_check_safety_limits(s.ctrl, s.meas)
    THEN [ state |-> controller_emergency_shutdown(s),
           ret |-> -1, path |-> "emergency" ]
    ELSE [ state |->
             update_statistics(
               manage_grid_connection(
                 controller_optimize_energy_flow(
                   determine_mode(
                     controller_handle_faults(s, ag_fault, ev_fault, t), t),
                   t))),
           ret |-> 0, path |-> "normal" ]

\* controller_run_cycle on the state s; returns the state, the result and
\* the path taken
controller_run_cycle(s, irrigation, ev, ag_fault, ev_fault, t) ==
    IF ~cycle_due(s.ctrl, t)
    THEN [ state |-> s, ret |-> -1, path |-> "early" ]
    ELSE after_measurements(
             controller_update_measurements(stamp_cycle(s, t),
                                            irrigation, ev, t),
             ag_fault, ev_fault, t)

\* controller_cleanup
controller_cleanup(c) == [ c EXCEPT !.commands = commands_zero ]

-----------------------------------------------------------------------------
(* api_handler.c: the handlers of the web API that write to the controller *)

\* system_mode_t and alarm_code_t, by their numbers
system_mode_t == <<"NORMAL", "ISLAND", "CRITICAL", "MAINTENANCE", "EMERGENCY">>
alarm_code_t ==
    << "ALARM_GRID_FAILURE", "ALARM_BATTERY_OVER_TEMP", "ALARM_BATTERY_LOW_SOC",
       "ALARM_PV_DISCONNECT", "ALARM_OVERLOAD", "ALARM_COMM_FAILURE",
       "ALARM_IRRIGATION_FAULT", "ALARM_EV_CHARGER_FAULT" >>

\* api_system_mode with the integer mode of the request body
api_system_mode(c, mode, t) ==
    IF mode >= 0 /\ mode <= 4
    THEN [ c EXCEPT !.status.mode = system_mode_t[mode + 1],
                    !.status.last_mode_change = t,
                    !.mode = CASE mode \in {0, 1, 2} -> "AUTO"
                               [] mode = 3 -> "MANUAL"
                               [] mode = 4 -> "SAFE" ]
    ELSE c

\* api_alarms_ack: acknowledge_all, else the bit of alarm_code (-1 when the
\* body has none)
api_alarms_ack(c, acknowledge_all, alarm_code) ==
    IF acknowledge_all
    THEN [ c EXCEPT !.status.alarms = {}, !.status.warnings = {} ]
    ELSE IF alarm_code >= 0 /\ alarm_code < Len(alarm_code_t)
    THEN [ c EXCEPT !.status.alarms = @ \ {alarm_code_t[alarm_code + 1]} ]
    ELSE c

-----------------------------------------------------------------------------
(* Initial records *)

\* memset(ctrl, 0, ...) leaves every measurement zero
meas_init ==
    [ grid_power |-> 0, grid_voltage |-> 0, grid_frequency |-> 0,
      pv_power_total |-> 0,
      battery_power |-> 0, battery_voltage |-> 0, battery_current |-> 0,
      battery_soc |-> 0, battery_temp |-> 0,
      load_power_total |-> 0, load_power_critical |-> 0,
      load_power_deferrable |-> 0,
      irrigation_power |-> 0, ev_charging_power |-> 0,
      timestamp |-> 0 ]

\* what an operation record remembers of the battery before the call
pre_of(b) ==
    [ state |-> b.state,
      ov |-> b.overvoltage_fault, uv |-> b.undervoltage_fault,
      oc |-> b.overcurrent_fault, ot |-> b.overtemperature_fault,
      soc |-> b.soc_smoothed, stage |-> b.charge_stage,
      ts |-> b.last_update_ts ]

\* a program that has set up its controller and is about to enter its loop:
\* the running flag is 1, the main thread is the only caller, and of the
\* three entry points only ignore.c has started the web server
program_start(entry) ==
    [ entry |-> entry, running |-> TRUE, webserver |-> entry = "ignore.c",
      pc |-> <<"loop">> ]

proc_init == program_start("main.c")

op_init ==
    [ name |-> "init", n |-> 0, arg |-> <<>>, ret |-> FALSE,
      pre |-> pre_of(battery_init) ]

-----------------------------------------------------------------------------
(* SpecBattery: the battery functions called one at a time on one pack *)

\* pack voltage samples, millivolt: nominal; above the overvoltage trip,
\* between recovery and trip, at recovery; below the undervoltage trip,
\* between, at recovery
VoltageSamples == { 48000, 59200, 57920, 57600, 38400, 40800, 41600 }
\* current samples, milliampere: rest; charge trip, between, at recovery;
\* discharge trip
CurrentSamples == { 0, 520000, 480000, 458332, -520000 }
\* temperature samples, degree C: nominal; trip, between, at recovery
TempSamples == { 25, 65, 57, 55 }
\* SOC readings supplied by the collaborator layer, centi-percent
SocSamples == { 400, 900, 1000, 5000, 9000 }
\* <<available_power, load_power>> pairs handed to battery_manage_charging
ChargeArgs == { <<50, 0>>, <<500, 200>>, <<5000, 200>>, <<200, 500>> }
\* load_power handed to battery_manage_discharging
DischargeArgs == { 5, 500 }

\* a sample departs from nominal in at most one quantity
Samples ==
    { [ v |-> v, i |-> 0, t |-> 25 ] : v \in VoltageSamples } \cup
    { [ v |-> 48000, i |-> i, t |-> 25 ] : i \in CurrentSamples } \cup
    { [ v |-> 48000, i |-> 0, t |-> t ] : t \in TempSamples }

with_sample(m, s) ==
    [ m EXCEPT !.battery_voltage = s.v, !.battery_current = s.i,
               !.battery_temp = s.t ]

next_op(name, arg, ret) ==
    [ name |-> name, n |-> op.n + 1, arg |-> arg, ret |-> ret,
      pre |-> pre_of(bat) ]

BInit ==
    /\ now = T0
    /\ bat = battery_init
    /\ chk = chk_init
    /\ meas = meas_init
    /\ lm = loads_init(<<>>, T0)
    /\ ctrl = controller_init(1, T0)
    /\ pv = pv_init
    /\ proc = proc_init
    /\ op = op_init

\* time passes between calls
BTick ==
    /\ op.n < MaxBatOps
    /\ \E d \in {1, 301} : now' = now + d
    /\ op' = next_op("tick", <<>>, FALSE)
    /\ UNCHANGED <<bat, chk, meas, lm, ctrl, pv, proc>>

BCalculateSoc ==
    /\ op.n < MaxBatOps
    /\ \E soc \in SocSamples :
         LET m == [ meas EXCEPT !.battery_soc = soc, !.timestamp = now ]
             r == battery_calculate_soc(bat, m, now)
         IN /\ bat' = r.bat
            /\ meas' = r.meas
            /\ op' = next_op("battery_calculate_soc", <<soc>>, FALSE)
    /\ UNCHANGED <<now, chk, lm, ctrl, pv, proc>>

BCheckLimits ==
    /\ op.n < MaxBatOps
    /\ \E s \in Samples :
         LET m == with_sample(meas, s)
             r == battery_check_limits(bat, chk, m, now)
         IN /\ bat' = r.bat
            /\ chk' = r.chk
            /\ meas' = m
            /\ op' = next_op("battery_check_limits", <<>>, r.fault)
    /\ UNCHANGED <<now, lm, ctrl, pv, proc>>

BManageCharging ==
    /\ op.n < MaxBatOps
    /\ \E a \in ChargeArgs :
         /\ bat' = battery_manage_charging(bat, a[1], a[2], now)
         /\ op' = next_op("battery_manage_charging", a,
                          do_charge(bat, a[1] - a[2]))
    /\ UNCHANGED <<now, chk, meas, lm, ctrl, pv, proc>>

BManageDischarging ==
    /\ op.n < MaxBatOps
    /\ \E l \in DischargeArgs, g \in BOOLEAN :
         /\ bat' = battery_manage_discharging(bat, l, g)
         /\ op' = next_op("battery_manage_discharging", <<l, g>>,
                          should_discharge(bat, l, g))
    /\ UNCHANGED <<now, chk, meas, lm, ctrl, pv, proc>>

BClearFaults ==
    /\ op.n < MaxBatOps
    /\ bat' = battery_clear_faults(bat)
    /\ op' = next_op("battery_clear_faults", <<>>, FALSE)
    /\ UNCHANGED <<now, chk, meas, lm, ctrl, pv, proc>>

BThermal ==
    /\ op.n < MaxBatOps
    /\ \E t \in TempSamples :
         /\ bat' = battery_thermal_management([ bat EXCEPT !.temperature_c = t ])
         /\ op' = next_op("battery_thermal_management", <<t>>, FALSE)
    /\ UNCHANGED <<now, chk, meas, lm, ctrl, pv, proc>>

BNext ==
    \/ BTick
    \/ BCalculateSoc
    \/ BCheckLimits
    \/ BManageCharging
    \/ BManageDischarging
    \/ BClearFaults
    \/ BThermal

SpecBattery == BInit /\ [][BNext]_vars

-----------------------------------------------------------------------------
(* SpecSoc: the estimator on a pack whose tuning fields hold any value *)

\* soc_voltage_weight as configured, permille: default, negative, above one
WeightSamples == { 400, -500, 1500 }
\* soc_smoothing_alpha as configured, permille: default, negative, above one
AlphaSamples == { 100, -500, 2000 }
\* SOC readings within [0, 100], centi-percent
SocInputs == { 0, 5000, 9000, 10000 }
\* pack voltage, millivolt: below and above the OCV table
SocVoltages == { 40000, 56000 }
\* pack current, milliampere: rest, charging
SocCurrents == { 0, 400000 }

\* calls made (clock steps included) in the estimator specification
MaxSocOps == 3

SInit ==
    /\ now = T0
    /\ \E w \in WeightSamples, a \in AlphaSamples :
         bat = [ battery_init EXCEPT !.soc_voltage_weight = w,
                                     !.soc_smoothing_alpha = a ]
    /\ chk = chk_init
    /\ meas = meas_init
    /\ lm = loads_init(<<>>, T0)
    /\ ctrl = controller_init(1, T0)
    /\ pv = pv_init
    /\ proc = proc_init
    /\ op = op_init

STick ==
    /\ op.n < MaxSocOps
    /\ \E d \in {1, 3600} : now' = now + d
    /\ op' = next_op("tick", <<>>, FALSE)
    /\ UNCHANGED <<bat, chk, meas, lm, ctrl, pv, proc>>

SCalculateSoc ==
    /\ op.n < MaxSocOps
    /\ \E soc \in SocInputs, v \in SocVoltages, i \in SocCurrents :
         LET m == [ meas EXCEPT !.battery_soc = soc, !.battery_voltage = v,
                                !.battery_current = i, !.timestamp = now ]
             r == battery_calculate_soc(bat, m, now)
         IN /\ bat' = r.bat
            /\ meas' = r.meas
            /\ op' = next_op("battery_calculate_soc", <<soc, v, i>>, FALSE)
    /\ UNCHANGED <<now, chk, lm, ctrl, pv, proc>>

SNext == STick \/ SCalculateSoc

SpecSoc == SInit /\ [][SNext]_vars

-----------------------------------------------------------------------------
(* SpecLoads: the shedding functions called one at a time on one manager *)

\* calls made (clock steps included) in the load specification
MaxLoadOps == 4

\* one Critical load flagged sheddable, one Medium load, three NonEssential
\* loads of 200 W, none with timing constraints
ScenarioLoads ==
    << load_definition(PRIORITY_CRITICAL, 300, TRUE, 0, 0),
       load_definition(PRIORITY_MEDIUM, 200, TRUE, 0, 0),
       load_definition(PRIORITY_NON_ESSENTIAL, 200, TRUE, 0, 0),
       load_definition(PRIORITY_NON_ESSENTIAL, 200, TRUE, 0, 0),
       load_definition(PRIORITY_NON_ESSENTIAL, 200, TRUE, 0, 0) >>

\* a Critical load flagged sheddable, a small Low load, a NonEssential load
SmallLoads ==
    << load_definition(PRIORITY_CRITICAL, 300, TRUE, 0, 0),
       load_definition(PRIORITY_LOW, 30, TRUE, 0, 0),
       load_definition(PRIORITY_NON_ESSENTIAL, 200, TRUE, 0, 0) >>

\* loads with minimum on and off times, and one that is not sheddable
TimedLoads ==
    << load_definition(PRIORITY_HIGH, 400, TRUE, 60, 120),
       load_definition(PRIORITY_LOW, 100, FALSE, 0, 0),
       load_definition(PRIORITY_NON_ESSENTIAL, 200, TRUE, 30, 0) >>

LoadConfigs == { ScenarioLoads, SmallLoads, TimedLoads }

shed_call(available_power, total_load, battery_soc, grid_available) ==
    [ available_power |-> available_power, total_load |-> total_load,
      battery_soc |-> battery_soc, grid_available |-> grid_available ]

\* arguments of loads_manage_shedding: deficits of 500 W and 700 W, a deficit
\* with 30 W available, a surplus, SOC below 50 %, the grid present
ShedCalls ==
    { shed_call(0, 500, 6000, FALSE), shed_call(0, 700, 6000, FALSE),
      shed_call(30, 500, 6000, FALSE), shed_call(1000, 0, 6000, FALSE),
      shed_call(0, 500, 4000, FALSE), shed_call(0, 500, 6000, TRUE) }

\* available_power handed to loads_restore_shed
RestoreArgs == { 0, 30, 1000 }

LInit ==
    /\ now = T0
    /\ bat = battery_init
    /\ chk = chk_init
    /\ meas = meas_init
    /\ \E config \in LoadConfigs : lm = loads_init(config, T0)
    /\ ctrl = controller_init(1, T0)
    /\ pv = pv_init
    /\ proc = proc_init
    /\ op = op_init

LTick ==
    /\ op.n < MaxLoadOps
    /\ \E d \in {1, 60, 301} : now' = now + d
    /\ op' = next_op("tick", <<>>, FALSE)
    /\ UNCHANGED <<bat, chk, meas, lm, ctrl, pv, proc>>

LManageShedding ==
    /\ op.n < MaxLoadOps
    /\ \E a \in ShedCalls :
         LET r == loads_manage_shedding(lm, a.available_power, a.total_load,
                                        a.battery_soc, a.grid_available, now)
         IN /\ lm' = r.lm
            /\ op' = next_op("loads_manage_shedding", a, r.changed)
    /\ UNCHANGED <<now, bat, chk, meas, ctrl, pv, proc>>

LRestoreShed ==
    /\ op.n < MaxLoadOps
    /\ \E a \in RestoreArgs :
         /\ lm' = loads_restore_shed(lm, a, now)
         /\ op' = next_op("loads_restore_shed", a, FALSE)
    /\ UNCHANGED <<now, bat, chk, meas, ctrl, pv, proc>>

LRotateShedding ==
    /\ op.n < MaxLoadOps
    /\ lm' = loads_rotate_shedding(lm, now)
    /\ op' = next_op("loads_rotate_shedding", <<>>, FALSE)
    /\ UNCHANGED <<now, bat, chk, meas, ctrl, pv, proc>>

LNext == LTick \/ LManageShedding \/ LRestoreShed \/ LRotateShedding

SpecLoads == LInit /\ [][LNext]_vars

-----------------------------------------------------------------------------
(* Spec: the control cycle, the clock and the collaborator layer that writes
   the measurements between cycles *)

\* executed control cycles
MaxCycles == 2

\* control_interval of the configuration, seconds
ControlInterval == 1

\* a Critical and a NonEssential load that together exceed the PV output
\* when the EV charger draws power
HeavyLoads ==
    << load_definition(PRIORITY_CRITICAL, 9000, FALSE, 0, 0),
       load_definition(PRIORITY_NON_ESSENTIAL, 4000, TRUE, 0, 0) >>

\* a single Critical load far below the PV output
LightLoads == << load_definition(PRIORITY_CRITICAL, 1000, FALSE, 0, 0) >>

\* the load configurations the control cycle is run with
CycleLoads == { HeavyLoads, LightLoads }

\* a report of the hardware layer, the pack voltage at 48 V
hal_sample(temp, current, soc, grid_voltage, grid_frequency) ==
    [ battery_temp |-> temp, battery_current |-> current, battery_soc |-> soc,
      battery_voltage |-> 48000,
      grid_voltage |-> grid_voltage, grid_frequency |-> grid_frequency ]

\* what the hardware layer reports: nominal, battery at 65 degree C, charge
\* overcurrent, grid lost at low SOC, battery almost full, grid lost with the
\* battery at 19.9 % and charging, a pack voltage of 85 V
HalSamples ==
    { hal_sample(25, 0, 5000, 240, 600),
      hal_sample(65, 0, 5000, 240, 600),
      hal_sample(25, 520000, 5000, 240, 600),
      hal_sample(25, 0, 1500, 100, 600),
      hal_sample(25, 0, 9500, 240, 600),
      hal_sample(25, 400000, 1990, 100, 600),
      hal_sample(25, 0, 10000, 240, 600),
      [ hal_sample(25, 0, 5000, 240, 600) EXCEPT !.battery_voltage = 85000 ] }

cycle_input(irrigation, ev, ag_fault, ev_fault) ==
    [ irrigation |-> irrigation, ev |-> ev,
      ag_fault |-> ag_fault, ev_fault |-> ev_fault ]

\* what the irrigation and EV subsystems report during a cycle
CycleInputs ==
    { cycle_input(0, 0, FALSE, FALSE), cycle_input(0, 7000, TRUE, FALSE) }

system_state == [ bat |-> bat, chk |-> chk, meas |-> meas, lm |-> lm,
                  ctrl |-> ctrl, pv |-> pv ]

cycle_op(name, ret, path) == [ name |-> name, ret |-> ret, path |-> path ]

Init ==
    /\ now = T0
    /\ bat = battery_init
    /\ chk = chk_init
    /\ meas = meas_init
    /\ \E l \in CycleLoads : lm = loads_init(l, T0)
    /\ ctrl = controller_init(ControlInterval, T0)
    /\ pv = pv_init
    /\ proc = proc_init
    /\ op = cycle_op("init", 0, "")

\* the main loop sleeps after a call of controller_run_cycle
Tick ==
    /\ ctrl.cycle_count < MaxCycles
    /\ op.name \in {"init", "controller_run_cycle"}
    /\ \E d \in {1, 301} : now' = now + d
    /\ op' = cycle_op("tick", 0, "")
    /\ UNCHANGED <<bat, chk, meas, lm, ctrl, pv, proc>>

\* ems_hal_update_measurements: the hardware layer writes the measurements
HalUpdate ==
    /\ ctrl.cycle_count < MaxCycles
    /\ \E h \in HalSamples :
         meas' = [ meas EXCEPT !.battery_temp = h.battery_temp,
                               !.battery_current = h.battery_current,
                               !.battery_soc = h.battery_soc,
                               !.battery_voltage = h.battery_voltage,
                               !.grid_voltage = h.grid_voltage,
                               !.grid_frequency = h.grid_frequency,
                               !.timestamp = now ]
    /\ op' = cycle_op("ems_hal_update_measurements", 0, "")
    /\ UNCHANGED <<now, bat, chk, lm, ctrl, pv, proc>>

\* the variables after a controller_run_cycle call that returned r
cycle_returns(r) ==
    /\ bat' = r.state.bat
    /\ chk' = r.state.chk
    /\ meas' = r.state.meas
    /\ lm' = r.state.lm
    /\ ctrl' = r.state.ctrl
    /\ pv' = r.state.pv
    /\ op' = cycle_op("controller_run_cycle", r.ret, r.path)

\* one call of controller_run_cycle
RunCycle ==
    /\ ctrl.cycle_count < MaxCycles
    /\ \E a \in CycleInputs :
         cycle_returns(controller_run_cycle(system_state, a.irrigation, a.ev,
                                            a.ag_fault, a.ev_fault, now))
    /\ UNCHANGED <<now, proc>>

Next == Tick \/ HalUpdate \/ RunCycle

Spec == Init /\ [][Next]_vars

-----------------------------------------------------------------------------
(* Claims about the battery functions, checked under SpecBattery *)

\* the sample of the last battery_check_limits call lies strictly between
\* the recovery and the trip threshold of each fault
ov_between == /\ cell_voltage(bat, meas) > cell_v_max_hyst(bat)
              /\ cell_voltage(bat, meas) < cell_v_max(bat)
uv_between == /\ cell_voltage(bat, meas) < cell_v_min_hyst(bat)
              /\ cell_voltage(bat, meas) > cell_v_min(bat)
oc_between == \/ /\ meas.battery_current > charge_hyst(bat)
                 /\ meas.battery_current < charge_threshold(bat)
              \/ /\ meas.battery_current < -discharge_hyst(bat)
                 /\ meas.battery_current > -discharge_threshold(bat)
ot_between == meas.battery_temp > temp_hyst /\ meas.battery_temp < temp_threshold

\* the sample is at or past the recovery threshold
ov_at_or_past == cell_voltage(bat, meas) <= cell_v_max_hyst(bat)
uv_at_or_past == cell_voltage(bat, meas) >= cell_v_min_hyst(bat)
oc_at_or_past == /\ meas.battery_current <= charge_hyst(bat)
                 /\ meas.battery_current >= -discharge_hyst(bat)
ot_at_or_past == meas.battery_temp <= temp_hyst

\* the sample is exactly at the recovery threshold
ov_at == cell_voltage(bat, meas) = cell_v_max_hyst(bat)
uv_at == cell_voltage(bat, meas) = cell_v_min_hyst(bat)
oc_at == \/ meas.battery_current = charge_hyst(bat)
         \/ meas.battery_current = -discharge_hyst(bat)
ot_at == meas.battery_temp = temp_hyst

checked == op.name = "battery_check_limits"

\* C4 as stated: a sample beyond the trip threshold sets the flag, a sample
\* strictly between recovery and trip leaves a set flag set, and a sample at
\* or past the recovery threshold (equality included) clears it.
C4_ClearsAtRecovery ==
    checked =>
      /\ (overvoltage_trip(bat, meas) => bat.overvoltage_fault)
      /\ (undervoltage_trip(bat, meas) => bat.undervoltage_fault)
      /\ (overcurrent_trip(bat, meas) => bat.overcurrent_fault)
      /\ (overtemperature_trip(meas) => bat.overtemperature_fault)
      /\ (op.pre.ov /\ ov_between => bat.overvoltage_fault)
      /\ (op.pre.uv /\ uv_between => bat.undervoltage_fault)
      /\ (op.pre.oc /\ oc_between => bat.overcurrent_fault)
      /\ (op.pre.ot /\ ot_between => bat.overtemperature_fault)
      /\ (op.pre.ov /\ ov_at_or_past => ~bat.overvoltage_fault)
      /\ (op.pre.uv /\ uv_at_or_past => ~bat.undervoltage_fault)
      /\ (op.pre.oc /\ oc_at_or_past => ~bat.overcurrent_fault)
      /\ (op.pre.ot /\ ot_at_or_past => ~bat.overtemperature_fault)

\* C4 amended: a sample beyond the trip threshold sets the flag; a sample
\* strictly between recovery and trip, or exactly at the recovery threshold,
\* leaves a set flag set; a sample strictly past the recovery threshold
\* clears it.
C4_Hysteresis ==
    checked =>
      /\ (overvoltage_trip(bat, meas) => bat.overvoltage_fault)
      /\ (undervoltage_trip(bat, meas) => bat.undervoltage_fault)
      /\ (overcurrent_trip(bat, meas) => bat.overcurrent_fault)
      /\ (overtemperature_trip(meas) => bat.overtemperature_fault)
      /\ (op.pre.ov /\ (ov_between \/ ov_at) => bat.overvoltage_fault)
      /\ (op.pre.uv /\ (uv_between \/ uv_at) => bat.undervoltage_fault)
      /\ (op.pre.oc /\ (oc_between \/ oc_at) => bat.overcurrent_fault)
      /\ (op.pre.ot /\ (ot_between \/ ot_at) => bat.overtemperature_fault)
      /\ (op.pre.ov /\ ov_at_or_past /\ ~ov_at => ~bat.overvoltage_fault)
      /\ (op.pre.uv /\ uv_at_or_past /\ ~uv_at => ~bat.undervoltage_fault)
      /\ (op.pre.oc /\ oc_at_or_past /\ ~oc_at => ~bat.overcurrent_fault)
      /\ (op.pre.ot /\ ot_at_or_past /\ ~ot_at => ~bat.overtemperature_fault)

\* a set overtemperature flag met a sample exactly at the recovery threshold
\* and stayed set, after an earlier sample had tripped it
C4_Witness ==
    /\ checked
    /\ op.pre.ot /\ ot_at /\ bat.overtemperature_fault
    /\ bat.state = "FAULT"

\* C5: once the state is Fault it changes only through battery_clear_faults,
\* only when no fault flag is set, and only to previous_state or Idle.
C5_FaultLeftOnlyByClear ==
    (op.pre.state = "FAULT" /\ bat.state # "FAULT") =>
      /\ op.name = "battery_clear_faults"
      /\ ~still_faulted(bat)
      /\ bat.state \in { bat.previous_state, "IDLE" }

\* C6: after every battery_calculate_soc call, the first one included,
\* capacity_remaining_wh = capacity_nominal_wh * soc_smoothed / 100.
C6_RemainingConsistent ==
    op.name = "battery_calculate_soc" =>
      bat.capacity_remaining_wh * 10000
          = bat.capacity_nominal_wh * bat.soc_smoothed

\* C7: with SOC inputs in [0, 100] and any fusion weight and smoothing
\* factor, soc_smoothed is within [0, 100] after every battery_calculate_soc.
C7_SmoothedInRange ==
    op.name = "battery_calculate_soc" =>
      (bat.soc_smoothed >= 0 /\ bat.soc_smoothed <= 10000)

\* a later call whose smoothing factor is outside [0, 1] and whose unclamped
\* result leaves [0, 100]: the stored value sits on the clamp
C7_Witness ==
    /\ op.name = "battery_calculate_soc"
    /\ op.pre.ts # 0
    /\ bat.soc_smoothing_alpha \notin 0..1000
    /\ bat.soc_smoothed \in {0, 10000}
    /\ op.pre.soc \notin {0, 10000}
    /\ bat.soc_estimated \notin {0, 10000}

\* C9: Idle, SOC 10 %, 25 degree C, surplus 50 W: battery_manage_charging
\* leaves the battery Charging in stage Bulk.
C9_EmergencyChargeAtTen ==
    ( /\ op.name = "battery_manage_charging"
      /\ op.arg = <<50, 0>>
      /\ op.pre.state = "IDLE"
      /\ op.pre.soc = 1000
      /\ bat.temperature_c = 25 )
    => (bat.state = "CHARGING" /\ bat.charge_stage = "BULK")

-----------------------------------------------------------------------------
(* Claims about the load manager, checked under SpecLoads *)

shed_loads == { i \in 1..lm.load_count : lm.load_states[i] = "SHED" }
critical_loads ==
    { i \in 1..lm.load_count : lm.loads[i].priority = PRIORITY_CRITICAL }

\* C1: in every state reached by loads_manage_shedding, loads_restore_shed
\* and loads_rotate_shedding calls, no load of priority Critical is Shed.
C1_CriticalNeverShed == shed_loads \cap critical_loads = {}

\* loads_manage_shedding shed a load, stayed below its target and so went on
\* to the Critical priority, where a load flagged sheddable is still ON
C1_Witness ==
    /\ op.name = "loads_manage_shedding"
    /\ op.ret
    /\ shed_loads # {}
    /\ sum_to([ i \in 1..lm.load_count |->
                  IF i \in shed_loads THEN lm.loads[i].rated_power ELSE 0 ],
              lm.load_count) < lm.shed_power_target
    /\ \E i \in critical_loads :
         lm.loads[i].is_sheddable /\ lm.load_states[i] = "ON"

\* C8: a loads_manage_shedding call with a deficit above 100 W leaves the
\* shed target at 120 % of the deficit; on a freshly initialised manager with
\* three eligible 200 W NonEssential loads and a 500 W deficit it sheds
\* exactly those three loads and touches no load of higher priority.
C8_ShedsToTarget ==
    ( /\ op.name = "loads_manage_shedding"
      /\ shedding_runs(op.arg.battery_soc, op.arg.grid_available)
      /\ op.arg.total_load - op.arg.available_power > 100 )
    => /\ lm.shed_power_target * 10
            = (op.arg.total_load - op.arg.available_power) * 12
       /\ ( /\ op.n = 1
            /\ op.arg = shed_call(0, 500, 6000, FALSE)
            /\ lm.load_count = Len(ScenarioLoads)
            /\ \A i \in 1..lm.load_count :
                 lm.loads[i].rated_power = ScenarioLoads[i].rated_power )
          => shed_loads = { i \in 1..lm.load_count :
                              lm.loads[i].priority = PRIORITY_NON_ESSENTIAL }

-----------------------------------------------------------------------------
(* Claims about the control cycle, checked under Spec *)

\* C2: a controller_run_cycle call made before control_interval seconds have
\* elapsed since last_control_cycle changes nothing: battery, load manager,
\* commands, status, measurements, statistics, cycle_count and
\* last_control_cycle are as before.
C2_EarlyCallChangesNothing ==
    [][ ( /\ op'.name = "controller_run_cycle"
          /\ now - ctrl.last_control_cycle < ctrl.control_interval )
        => UNCHANGED <<bat, chk, meas, lm, ctrl, pv>> ]_vars

\* a call came too early after an executed cycle and returned -1
C2_Witness ==
    /\ op.name = "controller_run_cycle"
    /\ op.path = "early"
    /\ op.ret = -1
    /\ ctrl.cycle_count > 0
    /\ now - ctrl.last_control_cycle < ctrl.control_interval

executed == op.name = "controller_run_cycle" /\ op.path # "early"

\* C3: an executed cycle whose safety check fails ends with every load_shed
\* command true, island true, grid_connect false and status.mode Emergency.
C3_EmergencyCommands ==
    (executed /\ ~controller_check_safety_limits(ctrl, meas)) =>
      /\ \A i \in 1..MAX_CONTROLLABLE_LOADS : ctrl.commands.load_shed[i]
      /\ ctrl.commands.island
      /\ ~ctrl.commands.grid_connect
      /\ ctrl.status.mode = "EMERGENCY"

\* the battery reported 65 degree C in a cycle that followed a normal cycle
C3_Witness ==
    /\ executed
    /\ meas.battery_temp = 65
    /\ ~controller_check_safety_limits(ctrl, meas)
    /\ ctrl.cycle_count > 1
    /\ ctrl.statistics.pv_energy_total > 0

\* C10: the commands at the end of an executed cycle, emergency cycles
\* included, hold nothing left by an earlier cycle: a field the cycle did not
\* write has the value of the cleared record.
C10_CommandsRebuilt ==
    executed =>
      /\ ctrl.commands.irrigation_enable = commands_zero.irrigation_enable
      /\ ctrl.commands.ev_charge_rate = commands_zero.ev_charge_rate
      /\ (op.path = "emergency" =>
            /\ ctrl.commands.battery_setpoint = commands_zero.battery_setpoint
            /\ ctrl.commands.pv_curtail = commands_zero.pv_curtail
            /\ ctrl.commands.pv_curtail_percent
                   = commands_zero.pv_curtail_percent)
      /\ (op.path = "normal" /\ ctrl.commands.pv_curtail =>
            /\ meas.battery_soc > 9000
            /\ meas.pv_power_total - total_consumption(meas) > 100)

-----------------------------------------------------------------------------
(* Claims about restoring and the timing of the loads *)

\* C18: a loads_manage_shedding call made while shedding is active, with
\* demand - available power below -200 W, leaves every load that was shed ON
\* when the rated power of the shed loads together fits the available power.
C18_RestoresOnSurplus ==
    [][ ( /\ op'.name = "loads_manage_shedding"
          /\ shedding_runs(op'.arg.battery_soc, op'.arg.grid_available)
          /\ lm.shedding_active
          /\ op'.arg.total_load - op'.arg.available_power < -200
          /\ sum_to([ i \in 1..lm.load_count |->
                        IF lm.load_states[i] = "SHED"
                        THEN lm.loads[i].rated_power ELSE 0 ],
                    lm.load_count) <= op'.arg.available_power )
        => \A i \in 1..lm.load_count :
             lm.load_states[i] = "SHED" => lm'.load_states[i] = "ON" ]_vars

\* C20: no call switches a load from ON to SHED sooner than min_on_time after
\* its last change of state (its initialisation included), nor from SHED to ON
\* sooner than min_off_time after it was shed.
C20_TimingHonoured ==
    [][ \A i \in 1..lm.load_count :
          /\ (lm.load_states[i] = "ON" /\ lm'.load_states[i] = "SHED")
                => now - lm.loads[i].last_state_change
                       >= lm.loads[i].min_on_time
          /\ (lm.load_states[i] = "SHED" /\ lm'.load_states[i] = "ON")
                => now - lm.loads[i].last_state_change
                       >= lm.loads[i].min_off_time ]_vars

-----------------------------------------------------------------------------
(* Claims about the alarm bits *)

\* C14: after a cycle that ran controller_determine_mode, the grid-failure bit
\* is set only while the grid is unavailable, and the low-SOC bit only while
\* the SOC is below 20 % with the grid unavailable: a bit does not outlive its
\* condition.
C14_AlarmBitsFollowConditions ==
    (executed /\ op.path = "normal") =>
      /\ "ALARM_GRID_FAILURE" \in ctrl.status.alarms
            => ~ctrl.status.grid_available
      /\ "ALARM_BATTERY_LOW_SOC" \in ctrl.status.alarms
            => (meas.battery_soc < 2000 /\ ~ctrl.status.grid_available)

-----------------------------------------------------------------------------
(* SpecUpdate: battery_update_measurements called repeatedly on one pack, as
   the control cycle does *)

\* calls made (clock steps included) in the update specification
MaxUpdateOps == 6

\* what the caller measured: nominal; a pack at 52.8 V (3.3 V per cell); a
\* pack at 65 degree C.  The pack is at rest in each of them.
UpdateSamples ==
    { [ v |-> 48000, i |-> 0, t |-> 25 ],
      [ v |-> 52800, i |-> 0, t |-> 25 ],
      [ v |-> 48000, i |-> 0, t |-> 65 ] }

UInit ==
    /\ now = T0
    /\ bat = battery_init
    /\ chk = chk_init
    /\ meas = meas_init
    /\ lm = loads_init(<<>>, T0)
    /\ ctrl = controller_init(1, T0)
    /\ pv = pv_init
    /\ proc = proc_init
    /\ op = op_init

\* time passes between calls
UTick ==
    /\ op.n < MaxUpdateOps
    /\ \E d \in {1, 301} : now' = now + d
    /\ op' = next_op("tick", <<>>, FALSE)
    /\ UNCHANGED <<bat, chk, meas, lm, ctrl, pv, proc>>

\* the variables after a battery_update_measurements call that returned r
update_returns(r, s) ==
    /\ bat' = r.bat
    /\ chk' = r.chk
    /\ meas' = r.meas
    /\ op' = next_op("battery_update_measurements", s, FALSE)

\* one call of battery_update_measurements on fresh measurements
UUpdateMeasurements ==
    /\ op.n < MaxUpdateOps
    /\ \E s \in UpdateSamples :
         update_returns(
             battery_update_measurements(
                 bat, chk,
                 [ with_sample(meas, s) EXCEPT !.battery_soc = 5000,
                                               !.timestamp = now ],
                 now),
             s)
    /\ UNCHANGED <<now, lm, ctrl, pv, proc>>

UNext == UTick \/ UUpdateMeasurements

SpecUpdate == UInit /\ [][UNext]_vars

\* C13: automatic fault recovery is bounded: while the battery stays in FAULT
\* with its fault flag set, fault_clear_attempts never goes past 3, the count
\* at which automatic clearing stops.
C13_ClearAttemptsBounded ==
    (bat.state = "FAULT" /\ still_faulted(bat)) => bat.fault_clear_attempts <= 3

\* C17: after a battery_update_measurements call at rest that is not the
\* first estimation pass, soc_voltage is the OCV table value of the measured
\* pack voltage divided by the number of cells in series.
C17_VoltageSocOfMeasured ==
    ( /\ op.name = "battery_update_measurements"
      /\ op.pre.ts # 0
      /\ op.arg.i = 0 )
    => bat.soc_voltage
         = voltage_soc(bat, [ meas EXCEPT !.battery_voltage = op.arg.v ])

-----------------------------------------------------------------------------
(* SpecProgram: the three entry points that run the control loop (main.c,
   ignore.c, ws_main.c): the loop, the shutdown signal and its handler, the
   final cleanup, and the API handlers served by the web server's threads *)

EntryPoints == { "main.c", "ignore.c", "ws_main.c" }

\* requests to the API: modes Normal, Maintenance, Emergency and an invalid
\* one; acknowledge all, acknowledge the irrigation alarm, an empty body
ModeRequests == { 0, 3, 4, 7 }
AckRequests == { <<TRUE, -1>>, <<FALSE, 6>>, <<FALSE, -1>> }

main_at(pc) == proc.pc[1] = pc
main_to(pc) == [ proc EXCEPT !.pc[1] = pc ]

PInit ==
    /\ now = T0
    /\ bat = battery_init
    /\ chk = chk_init
    /\ meas = meas_init
    /\ lm = loads_init(HeavyLoads, T0)
    /\ ctrl = controller_init(ControlInterval, T0)
    /\ pv = pv_init
    /\ \E entry \in EntryPoints : proc = program_start(entry)
    /\ op = cycle_op("init", 0, "")

\* the loop condition holds and controller_run_cycle is entered: either the
\* gate returns at once, or the timing fields are written and the call is
\* under way
PCycleBegin ==
    /\ main_at("loop")
    /\ proc.running
    /\ ctrl.cycle_count < MaxCycles
    /\ IF cycle_due(ctrl, now)
       THEN /\ ctrl' = stamp_cycle(system_state, now).ctrl
            /\ proc' = main_to("in_cycle")
            /\ op' = cycle_op("controller_run_cycle", 0, "entered")
       ELSE /\ ctrl' = ctrl
            /\ proc' = main_to("sleep")
            /\ op' = cycle_op("controller_run_cycle", -1, "early")
    /\ UNCHANGED <<now, bat, chk, meas, lm, pv>>

\* the variables after the call under way returned r
cycle_ends(r) ==
    /\ bat' = r.state.bat
    /\ chk' = r.state.chk
    /\ meas' = r.state.meas
    /\ lm' = r.state.lm
    /\ ctrl' = r.state.ctrl
    /\ pv' = r.state.pv
    /\ op' = cycle_op("controller_run_cycle", r.ret, r.path)

\* the call under way runs from controller_update_measurements to its return
PCycleEnd ==
    /\ main_at("in_cycle")
    /\ \E a \in CycleInputs :
         cycle_ends(after_measurements(
                        controller_update_measurements(system_state,
                                                       a.irrigation, a.ev, now),
                        a.ag_fault, a.ev_fault, now))
    /\ proc' = main_to("sleep")
    /\ UNCHANGED now

\* nanosleep at the end of the loop body
PSleep ==
    /\ main_at("sleep")
    /\ \E d \in {1, 301} : now' = now + d
    /\ proc' = main_to("loop")
    /\ op' = cycle_op("nanosleep", 0, "")
    /\ UNCHANGED <<bat, chk, meas, lm, ctrl, pv>>

\* a shutdown signal is delivered and its handler runs, wherever the main
\* thread is: main.c clears the running flag; ignore.c and ws_main.c also
\* stop the web server and call controller_cleanup
PSignal ==
    /\ ~main_at("done")
    /\ proc.running
    /\ IF proc.entry = "main.c"
       THEN /\ proc' = [ proc EXCEPT !.running = FALSE ]
            /\ ctrl' = ctrl
            /\ op' = cycle_op("signal_handler", 0, "")
       ELSE /\ proc' = [ proc EXCEPT !.running = FALSE, !.webserver = FALSE ]
            /\ ctrl' = controller_cleanup(ctrl)
            /\ op' = cycle_op("signal_handler", 0, "controller_cleanup")
    /\ UNCHANGED <<now, bat, chk, meas, lm, pv>>

\* the loop condition fails: controller_cleanup, then the program ends
PCleanup ==
    /\ main_at("loop")
    /\ ~proc.running
    /\ ctrl' = controller_cleanup(ctrl)
    /\ proc' = [ main_to("done") EXCEPT !.webserver = FALSE ]
    /\ op' = cycle_op("main", 0, "controller_cleanup")
    /\ UNCHANGED <<now, bat, chk, meas, lm, pv>>

\* POST /api/system/mode, served by a thread of the web server
PApiSystemMode ==
    /\ proc.webserver
    /\ \E mode \in ModeRequests : ctrl' = api_system_mode(ctrl, mode, now)
    /\ op' = cycle_op("api_system_mode", 0, "")
    /\ UNCHANGED <<now, bat, chk, meas, lm, pv, proc>>

\* POST /api/alarms/acknowledge, served by a thread of the web server
PApiAlarmsAck ==
    /\ proc.webserver
    /\ \E a \in AckRequests : ctrl' = api_alarms_ack(ctrl, a[1], a[2])
    /\ op' = cycle_op("api_alarms_ack", 0, "")
    /\ UNCHANGED <<now, bat, chk, meas, lm, pv, proc>>

PNext ==
    \/ PCycleBegin \/ PCycleEnd \/ PSleep
    \/ PSignal \/ PCleanup
    \/ PApiSystemMode \/ PApiAlarmsAck

SpecProgram == PInit /\ [][PNext]_vars

\* C11: once the program has made its final controller_cleanup call, every
\* load_shed command is true and grid_connect is false.
C11_CleanupLeavesSafeCommands ==
    main_at("done") =>
      /\ \A i \in 1..MAX_CONTROLLABLE_LOADS : ctrl.commands.load_shed[i]
      /\ ~ctrl.commands.grid_connect

\* C12: the signal handler only records the request: controller_cleanup never
\* runs while a controller_run_cycle call is under way, whatever the entry
\* point.
C12_NoCleanupInsideCycle ==
    (op.path = "controller_cleanup") => ~main_at("in_cycle")

\* C16: status.mode, status.alarms, status.warnings and
\* status.last_mode_change change only in steps of controller_run_cycle.
C16_StatusWrittenByCycleOnly ==
    [][ ( \/ ctrl'.status.mode # ctrl.status.mode
          \/ ctrl'.status.alarms # ctrl.status.alarms
          \/ ctrl'.status.warnings # ctrl.status.warnings
          \/ ctrl'.status.last_mode_change # ctrl.status.last_mode_change )
        => op'.name = "controller_run_cycle" ]_vars

-----------------------------------------------------------------------------
(* SpecCallers: two threads that call controller_run_cycle on one controller,
   each call taken in the steps of its code: the gate (controller.c:93-100),
   the timing fields (103-105), the rest of the cycle (108-140) *)

Callers == { 1, 2 }

\* seconds the clock may advance in the callers specification
MaxCallerTicks == 2

\* both callers are outside controller_run_cycle; t holds the time each call
\* read at its first line
callers_start ==
    [ entry |-> "callers", running |-> TRUE, webserver |-> FALSE,
      pc |-> <<"idle", "idle">>, t |-> <<0, 0>> ]

caller_to(k, pc) == [ proc EXCEPT !.pc[k] = pc ]

CInit ==
    /\ now = T0
    /\ bat = battery_init
    /\ chk = chk_init
    /\ meas = meas_init
    /\ lm = loads_init(HeavyLoads, T0)
    /\ ctrl = controller_init(ControlInterval, T0)
    /\ pv = pv_init
    /\ proc = callers_start
    /\ op = cycle_op("init", 0, "")

CTick ==
    /\ now - T0 < MaxCallerTicks
    /\ now' = now + 1
    /\ op' = cycle_op("tick", 0, "")
    /\ UNCHANGED <<bat, chk, meas, lm, ctrl, pv, proc>>

\* caller k enters controller_run_cycle, reads the clock and tests the gate
CGate(k) ==
    /\ proc.pc[k] = "idle"
    /\ ctrl.cycle_count < MaxCycles
    /\ IF cycle_due(ctrl, now)
       THEN /\ proc' = [ caller_to(k, "passed") EXCEPT !.t[k] = now ]
            /\ op' = cycle_op("controller_run_cycle", 0, "passed")
       ELSE /\ proc' = proc
            /\ op' = cycle_op("controller_run_cycle", -1, "early")
    /\ UNCHANGED <<now, bat, chk, meas, lm, ctrl, pv>>

\* caller k, past the gate, writes the timing fields with the time it read
CStamp(k) ==
    /\ proc.pc[k] = "passed"
    /\ ctrl' = stamp_cycle(system_state, proc.t[k]).ctrl
    /\ proc' = caller_to(k, "body")
    /\ op' = cycle_op("controller_run_cycle", 0, "entered")
    /\ UNCHANGED <<now, bat, chk, meas, lm, pv>>

\* caller k runs the rest of the cycle and returns
CBody(k) ==
    /\ proc.pc[k] = "body"
    /\ cycle_ends(after_measurements(
                      controller_update_measurements(system_state, 0, 0, now),
                      FALSE, FALSE, now))
    /\ proc' = caller_to(k, "idle")
    /\ UNCHANGED now

CNext ==
    \/ CTick
    \/ \E k \in Callers : CGate(k) \/ CStamp(k) \/ CBody(k)

SpecCallers == CInit /\ [][CNext]_vars

\* C15: the gate lets at most one of two concurrent callers into the cycle
\* body: the two callers are never both in the body, and cycle_count grows by
\* at most one per elapsed control interval.
C15_GateSerialisesCallers ==
    /\ ~ \A k \in Callers : proc.pc[k] = "body"
    /\ ctrl.cycle_count * ctrl.control_interval <= now - T0

-----------------------------------------------------------------------------
(* SpecRotation: loads_manage_shedding called again and again with a lasting
   deficit while time passes.  The clock is kept relative so that the run can
   go on for ever: a step of d seconds moves every stored time d seconds into
   the past instead of moving now, and an age stops growing at AgeCap, beyond
   every duration the code compares an age with (300 s at most). *)

AgeCap == 400

\* the time stamp ts once d more seconds have passed
aged(ts, d) == now - Min(now - ts + d, AgeCap)

\* the load manager once d more seconds have passed
age_loads(l, d) ==
    [ l EXCEPT !.shedding_start_time = aged(l.shedding_start_time, d),
               !.loads = [ i \in 1..l.load_count |->
                   [ l.loads[i] EXCEPT
                       !.last_state_change =
                           aged(l.loads[i].last_state_change, d) ] ] ]

rotation_op(name, arg, ret) ==
    [ name |-> name, n |-> 0, arg |-> arg, ret |-> ret, pre |-> pre_of(bat) ]

RInit ==
    /\ now = T0
    /\ bat = battery_init
    /\ chk = chk_init
    /\ meas = meas_init
    /\ lm = age_loads(loads_init(ScenarioLoads, T0), 0)
    /\ ctrl = controller_init(1, T0)
    /\ pv = pv_init
    /\ proc = proc_init
    /\ op = op_init

\* the loop sleeps between two calls
RTick ==
    /\ op.name # "tick"
    /\ \E d \in {60, 120, 301} : lm' = age_loads(lm, d)
    /\ op' = rotation_op("tick", <<>>, FALSE)
    /\ UNCHANGED <<now, bat, chk, meas, ctrl, pv, proc>>

\* the variables after a loads_manage_shedding call with arguments a
\* returned r
shedding_returns(r, a) ==
    /\ lm' = r.lm
    /\ op' = rotation_op("loads_manage_shedding", a, r.changed)

\* the loop calls loads_manage_shedding with a deficit of 500 W, the battery
\* at 60 %, no grid
RManageShedding ==
    /\ op.name # "loads_manage_shedding"
    /\ shedding_returns(
           loads_manage_shedding(lm, 0, 500, 6000, FALSE, now),
           shed_call(0, 500, 6000, FALSE))
    /\ UNCHANGED <<now, bat, chk, meas, ctrl, pv, proc>>

RNext == RTick \/ RManageShedding

\* the control loop does not stop: calls and sleeps follow each other for ever
SpecRotation == RInit /\ [][RNext]_vars /\ WF_vars(RNext)

\* C19: while shedding stays active no load starves: a load that is SHED is
\* eventually ON again, that is (a load being either ON or SHED here) every
\* load is ON again and again.
C19_NoLoadStarves ==
    \A i \in 1..Len(ScenarioLoads) : []<>(lm.load_states[i] = "ON")

-----------------------------------------------------------------------------
(* Claims about the control cycle: the emergency path and the battery *)

\* C26: a cycle whose safety check fails returns after the emergency
\* shutdown: fault_mask, status.alarms, the statistics and the load states
\* are after the cycle what they were before it.
C26_EmergencyShortCircuits ==
    [][ (op'.name = "controller_run_cycle" /\ op'.path = "emergency") =>
          /\ ctrl'.fault_mask = ctrl.fault_mask
          /\ ctrl'.status.alarms = ctrl.status.alarms
          /\ ctrl'.statistics = ctrl.statistics
          /\ lm'.load_states = lm.load_states ]_vars

\* an emergency cycle in which the battery check has latched the
\* over-temperature fault while no alarm for it was raised, after an earlier
\* cycle had raised another alarm
C26_Witness ==
    /\ op.name = "controller_run_cycle"
    /\ op.path = "emergency"
    /\ bat.overtemperature_fault
    /\ "ALARM_BATTERY_OVER_TEMP" \notin ctrl.status.alarms
    /\ ctrl.status.alarms # {}


\* C27: in every state reached through control cycles the coulomb
\* accumulator lies within [0, total_Ah].
C27_AccumulatorInRange ==
    /\ bat.accumulated_ah >= 0
    /\ bat.accumulated_ah <= total_ah(bat)

\* C21: after an executed cycle in which PV generation exceeds the total
\* consumption by more than 100 W with the SOC below max_operating_soc, the
\* battery is CHARGING.
C21_ChargesOnSurplus ==
    ( /\ executed
      /\ op.path = "normal"
      /\ meas.pv_power_total - total_consumption(meas) > 100
      /\ bat.soc_smoothed < bat.max_operating_soc )
    => bat.state = "CHARGING"

\* C22: a cycle that runs on a report of the hardware layer with the pack
\* voltage outside 20 V .. 80 V takes the emergency path.
C22_VoltageOutsideEnvelopeStops ==
    [][ ( /\ op.name = "ems_hal_update_measurements"
          /\ op'.name = "controller_run_cycle"
          /\ op'.path # "early"
          /\ (meas.battery_voltage < 20000 \/ meas.battery_voltage > 80000) )
        => op'.path = "emergency" ]_vars

-----------------------------------------------------------------------------
(* SpecStage: the estimator and battery_manage_charging called in turn on a
   pack configured so that the estimate follows the measured voltage at once
   (soc_voltage_weight = 1, soc_smoothing_alpha = 1) *)

\* calls made (clock steps included) in the stage specification
MaxStageOps == 4

\* what the caller measured at rest, <<SOC, pack millivolt>>: 95 % (3.400 V
\* per cell), 89 % (3.370 V), 82.9 % (3.343 V), 70 % (3.300 V)
StageSamples ==
    { <<9500, 54400>>, <<8900, 53920>>, <<8290, 53500>>, <<7000, 52800>> }

GInit ==
    /\ now = T0
    /\ bat = [ battery_init EXCEPT !.soc_voltage_weight = 1000,
                                   !.soc_smoothing_alpha = 1000 ]
    /\ chk = chk_init
    /\ meas = meas_init
    /\ lm = loads_init(<<>>, T0)
    /\ ctrl = controller_init(1, T0)
    /\ pv = pv_init
    /\ proc = proc_init
    /\ op = op_init

\* time passes between calls: a second, or the absorption duration
GTick ==
    /\ op.n < MaxStageOps
    /\ \E d \in {1, 7200} : now' = now + d
    /\ op' = next_op("tick", <<>>, FALSE)
    /\ UNCHANGED <<bat, chk, meas, lm, ctrl, pv, proc>>

\* the variables after a battery_calculate_soc call on sample s returned r
soc_returns(r, s) ==
    /\ bat' = r.bat
    /\ meas' = r.meas
    /\ op' = next_op("battery_calculate_soc", s, FALSE)

GCalculateSoc ==
    /\ op.n < MaxStageOps
    /\ \E s \in StageSamples :
         soc_returns(
             battery_calculate_soc(
                 bat,
                 [ meas EXCEPT !.battery_soc = s[1], !.battery_voltage = s[2],
                               !.battery_current = 0, !.timestamp = now ],
                 now),
             s)
    /\ UNCHANGED <<now, chk, lm, ctrl, pv, proc>>

\* battery_manage_charging with 500 W available and a load of 200 W
GManageCharging ==
    /\ op.n < MaxStageOps
    /\ bat' = battery_manage_charging(bat, 500, 200, now)
    /\ op' = next_op("battery_manage_charging", <<500, 200>>, FALSE)
    /\ UNCHANGED <<now, chk, meas, lm, ctrl, pv, proc>>

GNext == GTick \/ GCalculateSoc \/ GManageCharging

SpecStage == GInit /\ [][GNext]_vars

-----------------------------------------------------------------------------
(* Claims about battery_manage_discharging, checked under SpecBattery *)

\* the last operation was battery_manage_discharging(load, grid)
discharge_called == op.name = "battery_manage_discharging"

\* C24: after battery_manage_discharging the battery is DISCHARGING exactly
\* when (islanded) load > 10 W and SOC > min_operating_soc + 5, or
\* (grid-connected) SOC > 70 %, load > 100 W and SOC > min_operating_soc; it
\* is IDLE otherwise, so it is never DISCHARGING with SOC at or below
\* min_operating_soc.
C24_DischargesAboveFloorOnly ==
    discharge_called =>
        LET load == op.arg[1]
            grid == op.arg[2]
            islanded_ok == /\ ~grid
                           /\ load > 10
                           /\ bat.soc_smoothed > bat.min_operating_soc + 500
            grid_ok == /\ grid
                       /\ bat.soc_smoothed > 7000
                       /\ load > 100
                       /\ bat.soc_smoothed > bat.min_operating_soc
        IN /\ bat.state \in {"DISCHARGING", "IDLE"}
           /\ bat.state = "DISCHARGING" <=> (islanded_ok \/ grid_ok)
           /\ bat.state = "DISCHARGING" =>
                  bat.soc_smoothed > bat.min_operating_soc

\* an islanded call with a 500 W load at an SOC at or below the floor left the
\* battery IDLE
C24_Witness ==
    /\ discharge_called
    /\ op.arg = <<500, FALSE>>
    /\ bat.soc_smoothed <= bat.min_operating_soc
    /\ bat.state = "IDLE"

-----------------------------------------------------------------------------
(* SpecThermal: battery_update_measurements fed with temperatures around the
   thermal thresholds, and battery_calculate_max_charge asked in between *)

\* calls made (clock steps included) in the thermal specification
MaxThermalOps == 4

\* what the caller measured, <<degree C, SOC>>: below freezing at 9 %, 15 %
\* and 50 %; at, between and past the heating and the cooling thresholds;
\* above the over-temperature trip
ThermalSamples ==
    { <<-5, 900>>, <<-5, 1500>>, <<-5, 5000>>,
      <<8, 5000>>, <<9, 5000>>, <<10, 5000>>,
      <<33, 5000>>, <<34, 5000>>, <<35, 5000>>, <<65, 5000>> }

HInit ==
    /\ now = T0
    /\ bat = battery_init
    /\ chk = chk_init
    /\ meas = meas_init
    /\ lm = loads_init(<<>>, T0)
    /\ ctrl = controller_init(1, T0)
    /\ pv = pv_init
    /\ proc = proc_init
    /\ op = op_init

\* time passes between calls
HTick ==
    /\ op.n < MaxThermalOps
    /\ \E d \in {1, 301} : now' = now + d
    /\ op' = next_op("tick", <<>>, FALSE)
    /\ UNCHANGED <<bat, chk, meas, lm, ctrl, pv, proc>>

\* one call of battery_update_measurements on fresh measurements
HUpdateMeasurements ==
    /\ op.n < MaxThermalOps
    /\ \E s \in ThermalSamples :
         update_returns(
             battery_update_measurements(
                 bat, chk,
                 [ meas EXCEPT !.battery_temp = s[1], !.battery_soc = s[2],
                               !.battery_current = 0, !.timestamp = now ],
                 now),
             s)
    /\ UNCHANGED <<now, lm, ctrl, pv, proc>>

\* one call of battery_calculate_max_charge; the watts returned are kept
HMaxCharge ==
    /\ op.n < MaxThermalOps
    /\ op' = next_op("battery_calculate_max_charge", <<>>,
                     battery_calculate_max_charge(bat))
    /\ UNCHANGED <<now, bat, chk, meas, lm, ctrl, pv, proc>>

HNext == HTick \/ HUpdateMeasurements \/ HMaxCharge

SpecThermal == HInit /\ [][HNext]_vars

\* C25: below 0 degree C battery_calculate_max_charge returns 0 W, except
\* below 10 % SOC, where it returns a tenth of the SOC-adjusted maximum
\* (below 20 % SOC the adjusted maximum is max_charge_power_w itself).
C25_NoChargeBelowFreezing ==
    ( /\ op.name = "battery_calculate_max_charge"
      /\ bat.temperature_c < 0 )
    => op.ret = IF bat.soc_smoothed < 1000
                THEN bat.max_charge_power_w \div 10
                ELSE 0


\* C30: battery_thermal_management, run at the end of
\* battery_update_measurements, turns cooling_active on at 35 degree C and
\* above, off at 33 and below, and leaves it alone in between; it turns
\* heating_active on at 8 and below, off at 10 and above, and leaves it alone
\* in between; the outputs follow from the temperature and their own previous
\* value alone, whatever the fault flags and the battery state are.
C30_ThermalHysteresis ==
    [][ op'.name = "battery_update_measurements" =>
          /\ bat'.cooling_active =
                 IF bat'.temperature_c >= 35 THEN TRUE
                 ELSE IF bat'.temperature_c <= 33 THEN FALSE
                 ELSE bat.cooling_active
          /\ bat'.heating_active =
                 IF bat'.temperature_c <= 8 THEN TRUE
                 ELSE IF bat'.temperature_c >= 10 THEN FALSE
                 ELSE bat.heating_active ]_vars

\* a faulted pack measured at 34 degree C, inside the cooling band, with the
\* cooling still on
C30_Witness ==
    /\ op.name = "battery_update_measurements"
    /\ bat.state = "FAULT"
    /\ bat.temperature_c = 34
    /\ bat.cooling_active

-----------------------------------------------------------------------------
(* SpecFusion: battery_calculate_soc called on a pack at 50 % with the
   voltage, current and temperature that decide the fusion of the two
   estimates *)

\* calls made (clock steps included) in the fusion specification
MaxFusionOps == 4

\* soc_voltage_weight, permille: the value battery_init sets, and one above
\* the level of the large-discrepancy correction
FusionWeights == { 400, 900 }

\* <<pack millivolt, milliampere, degree C>>: a voltage that reads 50 %, one
\* that reads 68 %, and 70 % at rest, under a current below 5 % of the
\* charge limit, under a discharge above it, in the cold and in the heat
FusionSamples ==
    { <<52000, 0, 25>>, <<52720, 0, 25>>, <<52800, 0, 25>>,
      <<52800, 20000, 25>>, <<52800, -30000, 25>>,
      <<52800, 0, 5>>, <<52800, 0, 45>> }

FInit ==
    /\ now = T0
    /\ \E w \in FusionWeights :
         bat = [ battery_init EXCEPT !.soc_voltage_weight = w ]
    /\ chk = chk_init
    /\ meas = meas_init
    /\ lm = loads_init(<<>>, T0)
    /\ ctrl = controller_init(1, T0)
    /\ pv = pv_init
    /\ proc = proc_init
    /\ op = op_init

\* time passes between calls: a second, or an hour
FTick ==
    /\ op.n < MaxFusionOps
    /\ \E d \in {1, 3600} : now' = now + d
    /\ op' = next_op("tick", <<>>, FALSE)
    /\ UNCHANGED <<bat, chk, meas, lm, ctrl, pv, proc>>

\* battery_calculate_soc on the sample s, the pack being at s[3] degree C
FCalculateSoc ==
    /\ op.n < MaxFusionOps
    /\ \E s \in FusionSamples :
         soc_returns(
             battery_calculate_soc(
                 [ bat EXCEPT !.temperature_c = s[3] ],
                 [ meas EXCEPT !.battery_soc = 5000, !.battery_voltage = s[1],
                               !.battery_current = s[2], !.timestamp = now ],
                 now),
             s)
    /\ UNCHANGED <<now, chk, lm, ctrl, pv, proc>>

FNext == FTick \/ FCalculateSoc

SpecFusion == FInit /\ [][FNext]_vars


\* the step is a battery_calculate_soc call after the first one
later_pass == op'.name = "battery_calculate_soc" /\ bat.last_update_ts # 0

\* the current of the call exceeds 5 % of max_charge_current_a
significant_current(b, i) == Abs(i) > (b.max_charge_current_a * 5) \div 100

\* C28: in a pass of battery_calculate_soc the voltage weight is 0 when
\* |battery_current| exceeds 5 % of max_charge_current_a, and soc_estimated is
\* then soc_coulomb; otherwise the weight is soc_voltage_weight, times 0.3
\* below 10 or above 40 degree C; the weight lies in [0,1] and
\* soc_estimated = (1 - w) * soc_coulomb + w * soc_voltage.
C28_VoltageWeightRules ==
    [][ later_pass =>
          LET heavy == significant_current(bat, op'.arg[2])
              extreme == op'.arg[3] < 10 \/ op'.arg[3] > 40
              w == IF heavy THEN 0
                   ELSE IF extreme THEN (bat.soc_voltage_weight * 3) \div 10
                   ELSE bat.soc_voltage_weight
          IN /\ w >= 0
             /\ w <= 1000
             /\ heavy => bat'.soc_estimated = bat'.soc_coulomb
             /\ bat'.soc_estimated =
                    (bat'.soc_coulomb * (1000 - w) + bat'.soc_voltage * w)
                        \div 1000 ]_vars

\* a pass under a significant current took the coulomb estimate although the
\* voltage estimate differed
C28_Witness ==
    /\ op.name = "battery_calculate_soc"
    /\ op.pre.ts # 0
    /\ significant_current(bat, op.arg[2])
    /\ bat.soc_estimated = bat.soc_coulomb
    /\ bat.soc_voltage # bat.soc_coulomb

\* C29: a pass of battery_calculate_soc sets the accumulator to
\* soc_voltage / 100 * total_Ah exactly when the weight used is above 0.8 and
\* soc_coulomb and soc_voltage are more than 18 points apart; in every other
\* pass the accumulator is the old one after self-discharge, integration of
\* the current and the clamp.
C29_ReanchorsOnDisagreement ==
    [][ later_pass =>
          bat'.accumulated_ah =
              IF /\ fusion_weight(bat', meas') > 800
                 /\ Abs(bat'.soc_coulomb - bat'.soc_voltage) > 1800
              THEN ah_of_soc(bat', bat'.soc_voltage)
              ELSE coulomb_count(bat, meas', Max(1, now - bat.last_update_ts))
      ]_vars

\* a pass at weight 0.9 found the estimates 20 points apart and moved the
\* accumulator to the voltage estimate
C29_Witness ==
    /\ op.name = "battery_calculate_soc"
    /\ op.pre.ts # 0
    /\ fusion_weight(bat, meas) > 800
    /\ Abs(bat.soc_coulomb - bat.soc_voltage) > 1800
    /\ bat.accumulated_ah = ah_of_soc(bat, bat.soc_voltage)
    /\ bat.accumulated_ah # ah_of_soc(bat, bat.soc_coulomb)

-----------------------------------------------------------------------------
(* Claims about the statistics, the alarms and the modes of the control
   cycle, checked under Spec *)

\* the step is a cycle that ran to its end on the normal path
normal_cycle_step == op'.name = "controller_run_cycle" /\ op'.path = "normal"

\* C31: a cycle that runs to its end adds to the PV and the load energy
\* totals the measured power times the seconds elapsed since the previous
\* executed cycle, whatever control_interval is.
C31_EnergyUsesElapsedTime ==
    [][ (normal_cycle_step /\ ctrl.cycle_count >= 1) =>
          LET elapsed == now - ctrl.last_control_cycle IN
          /\ ctrl'.statistics.pv_energy_total =
                 ctrl.statistics.pv_energy_total
                     + meas'.pv_power_total * elapsed
          /\ ctrl'.statistics.load_energy_total =
                 ctrl.statistics.load_energy_total
                     + meas'.load_power_total * elapsed ]_vars


\* C32: at the end of an executed cycle that measured a total consumption
\* above max_total_power the ALARM_OVERLOAD bit is set, and at the end of one
\* that measured a battery temperature above the over-temperature trip the
\* ALARM_BATTERY_OVER_TEMP bit is set.
C32_AlarmsRaised ==
    executed =>
        /\ total_consumption(meas) > ctrl.max_total_power
               => "ALARM_OVERLOAD" \in ctrl.status.alarms
        /\ meas.battery_temp > temp_threshold
               => "ALARM_BATTERY_OVER_TEMP" \in ctrl.status.alarms


\* the grid readings are healthy: above 200 V, between 59.5 and 60.5 Hz
grid_healthy(m) ==
    /\ m.grid_voltage > 200
    /\ m.grid_frequency > 595
    /\ m.grid_frequency < 605

\* C33: when the grid is marked unavailable and the hardware layer has
\* supplied healthy grid readings, a cycle that runs to its end on them marks
\* the grid available, returns the mode to NORMAL and clears the grid-failure
\* alarm.
C33_GridRestored ==
    [][ ( /\ op.name = "ems_hal_update_measurements"
          /\ grid_healthy(meas)
          /\ ~ctrl.status.grid_available
          /\ normal_cycle_step )
        => /\ ctrl'.status.grid_available
           /\ ctrl'.status.mode = "NORMAL"
           /\ "ALARM_GRID_FAILURE" \notin ctrl'.status.alarms ]_vars


\* C34: a cycle that finds the mode EMERGENCY, passes the safety check and
\* runs to its end with the grid availability unchanged leaves the mode
\* EMERGENCY behind and commands grid_connect or island.
C34_LeavesEmergency ==
    [][ ( /\ ctrl.status.mode = "EMERGENCY"
          /\ normal_cycle_step
          /\ ctrl'.status.grid_available = ctrl.status.grid_available )
        => /\ ctrl'.status.mode # "EMERGENCY"
           /\ ctrl'.commands.grid_connect \/ ctrl'.commands.island ]_vars


\* C35: at the end of a cycle that ran to its end the mode is CRITICAL only
\* if the grid is unavailable and the battery SOC is below 20 %.
C35_CriticalOnlyWhileLow ==
    ( /\ executed
      /\ op.path = "normal"
      /\ ctrl.status.mode = "CRITICAL" )
    => /\ ~ctrl.status.grid_available
       /\ meas.battery_soc < 2000

\* C38: when a cycle that ran to its end leaves commands.pv_curtail false,
\* the PV system is not curtailed: max_operating_power is the total capacity
\* and the state is not CURTAILED.
C38_CurtailmentReleased ==
    ( /\ executed
      /\ op.path = "normal"
      /\ ~ctrl.commands.pv_curtail )
    => /\ pv.max_operating_power = pv.total_capacity
       /\ pv.state # "CURTAILED"

-----------------------------------------------------------------------------
(* Claims about the first line of loads_manage_shedding, checked under
   SpecLoads *)

\* C36: a loads_manage_shedding call with the grid available or the battery
\* SOC below 50 % returns false and leaves the load manager as it was,
\* whatever the deficit.
C36_NoSheddingOnGridOrLowSoc ==
    [][ ( /\ op'.name = "loads_manage_shedding"
          /\ op'.arg.grid_available \/ op'.arg.battery_soc < 5000 )
        => /\ lm' = lm
           /\ op'.ret = FALSE ]_vars

\* an islanded call at an SOC below 50 % with a deficit above 100 W found a
\* sheddable load ON and left it ON
C36_Witness ==
    /\ op.name = "loads_manage_shedding"
    /\ ~op.arg.grid_available
    /\ op.arg.battery_soc < 5000
    /\ op.arg.total_load - op.arg.available_power > 100
    /\ op.ret = FALSE
    /\ \E i \in 1..lm.load_count :
         /\ lm.loads[i].is_sheddable
         /\ lm.loads[i].priority # PRIORITY_CRITICAL
         /\ lm.load_states[i] = "ON"
    /\ ~lm.shedding_active

-----------------------------------------------------------------------------
(* Claims about the owner of the coulomb accumulator, checked under
   SpecBattery *)

\* C37: battery_manage_charging, battery_manage_discharging,
\* battery_check_limits and battery_thermal_management leave accumulated_ah
\* and last_update_ts as they were.
C37_AccumulatorOwnedByEstimator ==
    [][ op'.name \in { "battery_manage_charging", "battery_manage_discharging",
                       "battery_check_limits", "battery_thermal_management" }
        => /\ bat'.accumulated_ah = bat.accumulated_ah
           /\ bat'.last_update_ts = bat.last_update_ts ]_vars

-----------------------------------------------------------------------------
(* SpecCommands: control cycles on nominal, overheated and grid-loss
   reports, mode requests of the web API in between, and controller_cleanup
   at the end of the program *)

\* cycles run in the command specification
MaxCommandCycles == 3

\* reports of the hardware layer: nominal, battery at 65 degree C, grid at
\* 100 V
CommandSamples ==
    { hal_sample(25, 0, 5000, 240, 600),
      hal_sample(65, 0, 5000, 240, 600),
      hal_sample(25, 0, 5000, 100, 600) }

\* modes asked for through POST /api/system/mode: ISLAND, MAINTENANCE
CommandModes == { 1, 3 }

KInit ==
    /\ now = T0
    /\ bat = battery_init
    /\ chk = chk_init
    /\ meas = meas_init
    /\ lm = loads_init(LightLoads, T0)
    /\ ctrl = controller_init(ControlInterval, T0)
    /\ pv = pv_init
    /\ proc = program_start("ignore.c")
    /\ op = cycle_op("init", 0, "")

\* the main loop sleeps after a call of controller_run_cycle
KTick ==
    /\ proc.running
    /\ ctrl.cycle_count < MaxCommandCycles
    /\ op.name \in {"init", "controller_run_cycle"}
    /\ now' = now + ControlInterval
    /\ op' = cycle_op("tick", 0, "")
    /\ UNCHANGED <<bat, chk, meas, lm, ctrl, pv, proc>>

\* ems_hal_update_measurements: the hardware layer writes the measurements
KHalUpdate ==
    /\ proc.running
    /\ ctrl.cycle_count < MaxCommandCycles
    /\ op.name = "tick"
    /\ \E h \in CommandSamples :
         meas' = [ meas EXCEPT !.battery_temp = h.battery_temp,
                               !.battery_current = h.battery_current,
                               !.battery_soc = h.battery_soc,
                               !.battery_voltage = h.battery_voltage,
                               !.grid_voltage = h.grid_voltage,
                               !.grid_frequency = h.grid_frequency,
                               !.timestamp = now ]
    /\ op' = cycle_op("ems_hal_update_measurements", 0, "")
    /\ UNCHANGED <<now, bat, chk, lm, ctrl, pv, proc>>

\* POST /api/system/mode between two cycles
KApiSystemMode ==
    /\ proc.running
    /\ proc.webserver
    /\ op.name = "ems_hal_update_measurements"
    /\ \E mode \in CommandModes : ctrl' = api_system_mode(ctrl, mode, now)
    /\ op' = cycle_op("api_system_mode", 0, "")
    /\ UNCHANGED <<now, bat, chk, meas, lm, pv, proc>>

\* one call of controller_run_cycle
KRunCycle ==
    /\ proc.running
    /\ ctrl.cycle_count < MaxCommandCycles
    /\ op.name \in {"ems_hal_update_measurements", "api_system_mode"}
    /\ cycle_returns(controller_run_cycle(system_state, 0, 0, FALSE, FALSE,
                                          now))
    /\ UNCHANGED <<now, proc>>

\* the loop ends and controller_cleanup runs
KCleanup ==
    /\ proc.running
    /\ op.name = "controller_run_cycle"
    /\ ctrl' = controller_cleanup(ctrl)
    /\ proc' = [ proc EXCEPT !.running = FALSE, !.webserver = FALSE ]
    /\ op' = cycle_op("controller_cleanup", 0, "")
    /\ UNCHANGED <<now, bat, chk, meas, lm, pv>>

KNext == KTick \/ KHalUpdate \/ KApiSystemMode \/ KRunCycle \/ KCleanup

SpecCommands == KInit /\ [][KNext]_vars

=============================================================================
